---- MODULE Spec2Model ----
(***************************************************************************)
(* Model of the mohen request/response logger (src/src/logger.ts, the      *)
(* revision that imports ./logger-utils): the Express response             *)
(* interceptor, the tRPC procedure interceptor and the rotating log store. *)
(* One exchange is followed from the middleware call to its end; `surface` *)
(* says whether it is an HTTP exchange or an RPC call.                      *)
(***************************************************************************)
EXTENDS Integers, Sequences, FiniteSets, TLC

(***************************************************************************)
(* Bounds of the model.                                                    *)
(***************************************************************************)
\* lines of text carried by all write/end payloads of one exchange together
MaxLines == 2
\* calls the handler makes during one exchange
MaxCalls == 3
\* calls each handler makes when two exchanges are followed together
MaxPairCalls == 2
MaxDepth == 2
\* exchanges that hand entries to logger.write
MaxWriters == 2
\* calls of logger.write followed against one file
MaxAppends == 10
\* lines of the log file when the logger is created
MaxPriorLines == 5
\* file operations that fail while one file is followed
MaxFailures == 1
\* calls of loggerMiddleware that are given the same context object
MaxRpcCalls == 2

(***************************************************************************)
(* Text.  A decoded payload is the sequence of its non-empty lines; a line *)
(* is its prefix (what startsWith sees) and the rest of the line.          *)
(***************************************************************************)
DeltaA == "{\"type\":\"text-delta\",\"delta\":\"a\"}"
DeltaB == "{\"type\":\"text-delta\",\"delta\":\"b\"}"
DoneSentinel == "[DONE]"
NotJson == "oops"

DataLine(rest) == [prefix |-> "data: ", rest |-> rest]
PlainLine == [prefix |-> "", rest |-> "plain text"]

\* the lines a handler writes in this model
Lines ==
    { DataLine(DeltaA), DataLine(DeltaB), DataLine(DoneSentinel),
      DataLine(NotJson), PlainLine }

\* all texts of 1..n lines
RECURSIVE TextsUpTo(_)
TextsUpTo(n) ==
    IF n = 0 THEN {}
    ELSE LET shorter == TextsUpTo(n - 1)
         IN  {<<l>> : l \in Lines} \cup shorter
               \cup {Append(t, l) : t \in shorter, l \in Lines}

\* JSON.parse on the texts of the model: the parsed value, or a failure
JsonParse(s) ==
    CASE s = DeltaA     -> [ok |-> TRUE, value |-> [type |-> "text-delta", delta |-> "a"]]
      [] s = DeltaB     -> [ok |-> TRUE, value |-> [type |-> "text-delta", delta |-> "b"]]
      [] OTHER          -> [ok |-> FALSE]

\* a write payload as the handler passes it: nothing, a string, or the
\* UTF-8 bytes of a string (one code per line of the model)
LineCodes ==
    [l \in Lines |->
        CASE l = DataLine(DeltaA)       -> 1
          [] l = DataLine(DeltaB)       -> 2
          [] l = DataLine(DoneSentinel) -> 3
          [] l = DataLine(NotJson)      -> 4
          [] OTHER                      -> 5]
Utf8Encode(text) == [i \in 1..Len(text) |-> LineCodes[text[i]]]
Utf8Decode(bytes) ==
    [i \in 1..Len(bytes) |-> CHOOSE l \in Lines : LineCodes[l] = bytes[i]]

NoChunk == [kind |-> "undefined"]
StringChunk(text) == [kind |-> "string", text |-> text]
BytesChunk(text) == [kind |-> "bytes", bytes |-> Utf8Encode(text)]

\* the number of lines a payload carries
ChunkLines(chunk) ==
    CASE chunk.kind = "string" -> Len(chunk.text)
      [] chunk.kind = "bytes"  -> Len(chunk.bytes)
      [] OTHER                 -> 0

\* `if (chunk)`: undefined and the empty string are falsy
Truthy(chunk) ==
    CASE chunk.kind = "undefined" -> FALSE
      [] chunk.kind = "string"    -> chunk.text # <<>>
      [] OTHER                    -> TRUE

\* the payloads of the model: strings, and the byte chunks of a
\* TextEncoderStream, which carry one line each
Chunks ==
    {NoChunk}
      \cup {StringChunk(t) : t \in TextsUpTo(MaxLines)}
      \cup {BytesChunk(t) : t \in TextsUpTo(1)}
      \* an SSE framing line, written on its own
      \cup {StringChunk(<<[prefix |-> "event: ", rest |-> "message"]>>)}
\* those of at most n lines
ChunksUpTo(n) == {c \in Chunks : ChunkLines(c) <= n}

(***************************************************************************)
(* logger-utils (imported by logger.ts, lines 427-434).                    *)
(***************************************************************************)
\* decodeChunk: null/undefined -> "", bytes -> UTF-8 decoded, text -> itself
decodeChunk(chunk) ==
    CASE chunk.kind = "undefined" -> <<>>
      [] chunk.kind = "bytes"     -> Utf8Decode(chunk.bytes)
      [] OTHER                    -> chunk.text

\* looksLikeSSE: some line starts with `data:` or `event:`
looksLikeSSE(text) ==
    \E i \in 1..Len(text) : text[i].prefix \in {"data: ", "data:", "event: ", "event:"}

\* the payloads of the data lines of a text, as the handler emitted them
RECURSIVE DataRests(_)
DataRests(text) ==
    IF text = <<>> THEN <<>>
    ELSE IF Head(text).prefix = "data: "
         THEN <<Head(text).rest>> \o DataRests(Tail(text))
         ELSE DataRests(Tail(text))

\* one data line's payload parsed
ParseDataLine(rest) ==
    IF rest = DoneSentinel THEN [type |-> "done"]
    ELSE IF JsonParse(rest).ok THEN JsonParse(rest).value
    ELSE [raw |-> rest]

\* the delta text a parsed payload contributes, as a 0/1-element sequence
DeltaOf(parsed) ==
    IF "type" \in DOMAIN parsed /\ parsed.type = "text-delta" /\ "delta" \in DOMAIN parsed
    THEN <<parsed.delta>> ELSE <<>>

\* the payloads of the data lines of a text, in order
RECURSIVE ParsedLines(_)
ParsedLines(text) ==
    IF text = <<>> THEN <<>>
    ELSE IF Head(text).prefix = "data: "
         THEN <<ParseDataLine(Head(text).rest)>> \o ParsedLines(Tail(text))
         ELSE ParsedLines(Tail(text))

RECURSIVE DeltasOf(_)
DeltasOf(results) ==
    IF results = <<>> THEN <<>>
    ELSE DeltaOf(Head(results)) \o DeltasOf(Tail(results))

\* parseSSEChunk(raw, textDeltas): null, one payload, or the array of them;
\* the deltas of text-delta events are pushed onto textDeltas
parseSSEChunk(text, deltas) ==
    LET results == ParsedLines(text)
        shaped ==
            CASE Len(results) = 0 -> [shape |-> "null"]
              [] Len(results) = 1 -> [shape |-> "single", value |-> results[1]]
              [] OTHER            -> [shape |-> "array", values |-> results]
    IN  [parsed |-> shaped, textDeltas |-> deltas \o DeltasOf(results)]


\* redactObject on a keyed map: a key whose lowercase form is configured is
\* masked, every other key keeps its value
VARIABLE options   \* the LoggerOptions the logger was constructed with
\* options.redact: absent, or the list of field names to mask
NoOption == [given |-> FALSE]
\* this.redactFields = new Set(options.redact ?? [...defaults])
redactFields ==
    IF options.redact.given THEN options.redact.names
    ELSE {"password", "token", "authorization", "cookie"}
ToLowerCase(key) ==
    CASE key = "Token"        -> "token"
      [] key = "Password"     -> "password"
      [] key = "apiKey"       -> "apikey"
      [] key = "Secret"       -> "secret"
      [] key = "Content-Type" -> "content-type"
      [] key = "Cache-Control" -> "cache-control"
      [] OTHER                -> key
RedactMap(map) ==
    [k \in DOMAIN map |->
        IF ToLowerCase(k) \in redactFields THEN "[REDACTED]" ELSE map[k]]

\* matchPath: pattern and path as segment sequences, "*" matches any run
RECURSIVE matchPath(_, _)
matchPath(pattern, pathname) ==
    IF pattern = <<>> THEN pathname = <<>>
    ELSE IF Head(pattern) = "*"
         THEN \E n \in 0..Len(pathname) :
                 matchPath(Tail(pattern), SubSeq(pathname, n + 1, Len(pathname)))
         ELSE /\ pathname # <<>>
              /\ Head(pathname) = Head(pattern)
              /\ matchPath(Tail(pattern), Tail(pathname))

\* shouldLogPath: the query string is stripped; a non-empty include list
\* decides alone, otherwise the ignore list excludes
shouldLogPath(url, includes, ignores) ==
    IF includes # {}
    THEN \E p \in includes : matchPath(p, url.pathname)
    ELSE ~ \E p \in ignores : matchPath(p, url.pathname)


(***************************************************************************)
(* Values of the model: bodies, metadata, headers, request URLs.           *)
(***************************************************************************)
Obj(map) == [t |-> "obj", v |-> map]
Str(text) == [t |-> "str", v |-> text]
\* nested JSON values: arrays and objects whose members are values again
Arr(items) == [t |-> "arr", v |-> items]
Node(fields) == [t |-> "node", v |-> fields]
MessageText == "{\"message\":\"hello\"}"
PasswordText == "{\"password\":\"secret\"}"
MessageBody == Obj("message" :> "hello")
PasswordBody == Obj("password" :> "secret")

\* the bodies a handler passes to json, and to send
JsonBodies == {MessageBody, PasswordBody}
SendBodies == {MessageBody, Str(MessageText), Str("plain text")}

\* JSON.parse and JSON.stringify on the bodies of the model
JsonParseBody(text) ==
    CASE text = MessageText  -> [ok |-> TRUE, value |-> MessageBody]
      [] text = PasswordText -> [ok |-> TRUE, value |-> PasswordBody]
      [] OTHER               -> [ok |-> FALSE]
JsonStringify(body) ==
    CASE body = MessageBody  -> MessageText
      [] body = PasswordBody -> PasswordText
      [] OTHER               -> body.v

\* the chunk Express hands to end for a string body
BodyChunk(body) == StringChunk(<<[prefix |-> "", rest |-> body.v]>>)

\* metadata maps a handler attaches
MetaKeys == {"orderId", "Token"}
MetaValues == {"v1", "v2"}
MetaMaps ==
    [{} -> MetaValues] \cup [{"orderId"} -> MetaValues]
      \cup [{"Token"} -> {"v1"}] \cup [MetaKeys -> {"v1"}]

\* Object.assign(target, source)
ObjectAssign(target, source) ==
    [k \in DOMAIN target \cup DOMAIN source |->
        IF k \in DOMAIN source THEN source[k] ELSE target[k]]

\* an attachMetadata that replaces the accumulator instead of merging
attachMetadataReplaces(accumulator, metadata) == metadata

\* attachMetadata / attachTrpcMetadata: the accumulator after the call
attachMetadata(accumulator, metadata) == ObjectAssign(accumulator, metadata)

EventStream == "text/event-stream"
IncludesEventStream(value) ==
    value \in {EventStream, "text/event-stream; charset=utf-8"}
HeaderNames == {"Content-Type", "Cache-Control"}
HeaderValues == {"text/event-stream; charset=utf-8", "application/json"}
\* header arguments of writeHead: a keyed map, given as the sequence of
\* its entries, or a flat array of alternating keys and values
HeaderArgs ==
    { [form |-> "map", pairs |-> <<<<"Content-Type", EventStream>>>>],
      [form |-> "array", items |-> <<"Cache-Control", "no-cache",
                                     "content-type", EventStream>>],
      [form |-> "array", items |-> <<"X-Kind", "content-type",
                                     EventStream, "x">>],
      [form |-> "map", pairs |-> <<<<"Content-Type", "application/json">>>>] }
NoHeaders == [form |-> "undefined", pairs |-> <<>>]
StatusMessage == [form |-> "message", pairs |-> <<>>]

ApiUsersUrl == [pathname |-> <<"api", "users">>, query |-> "?x=1"]
HealthUrl == [pathname |-> <<"health">>, query |-> ""]
HealthProbeUrl == [pathname |-> <<"health">>, query |-> "?probe=1"]
RequestUrls == {ApiUsersUrl, HealthUrl, HealthProbeUrl}
\* "" stands for no Accept header: req.headers.accept is undefined, which
\* === tells apart from every string
AcceptValues == {EventStream, "text/event-stream, */*", "*/*", ""}

\* the logger options of the model
includePaths == {}
ignorePaths == {<<"health">>, <<"metrics", "*">>}
\* the path lists a logger is constructed with: a deny list, or an allow list
PathOptions ==
    { [includePaths |-> includePaths, ignorePaths |-> ignorePaths],
      [includePaths |-> {<<"api", "*">>}, ignorePaths |-> {}] }

(***************************************************************************)
(* The rotating log store.                                                 *)
(***************************************************************************)
\* rotation threshold of the test logger, and the size of one serialized
\* line with its newline
maxSizeBytes == 500
RecordBytes == 300

\* The content of the file is a sequence of tokens: the text of a serialized
\* record, or the newline character.
Newline == [t |-> "nl"]
LineText(serialized) == [t |-> "text", v |-> serialized]
IsNewline(token) == token.t = "nl"
NoFile == [exists |-> FALSE, content |-> <<>>]

\* stats.size
RECURSIVE ContentBytes(_)
ContentBytes(content) ==
    IF content = <<>> THEN 0
    ELSE (IF IsNewline(Head(content)) THEN 1 ELSE RecordBytes - 1)
         + ContentBytes(Tail(content))
\* a size counted in lines instead of bytes
FileSizeInLines(file) == Len(SelectSeq(file.content, IsNewline))

FileSize(file) == ContentBytes(file.content)

\* content.trim(): the newlines at both ends removed
RECURSIVE TrimStart(_)
TrimStart(content) ==
    IF content # <<>> /\ IsNewline(Head(content)) THEN TrimStart(Tail(content))
    ELSE content
RECURSIVE TrimEnd(_)
TrimEnd(content) ==
    IF content # <<>> /\ IsNewline(content[Len(content)])
    THEN TrimEnd(SubSeq(content, 1, Len(content) - 1))
    ELSE content
Trim(content) == TrimEnd(TrimStart(content))

\* text.split('\n'): the pieces between newlines, one piece for no newline
RECURSIVE Split(_)
Split(content) ==
    IF \A k \in 1..Len(content) : ~IsNewline(content[k]) THEN <<content>>
    ELSE LET at == CHOOSE k \in 1..Len(content) :
                      /\ IsNewline(content[k])
                      /\ \A m \in 1..(k - 1) : ~IsNewline(content[m])
         IN  <<SubSeq(content, 1, at - 1)>>
             \o Split(SubSeq(content, at + 1, Len(content)))

\* pieces.join('\n')
RECURSIVE JoinLines(_)
JoinLines(pieces) ==
    IF pieces = <<>> THEN <<>>
    ELSE IF Len(pieces) = 1 THEN Head(pieces)
    ELSE Head(pieces) \o <<Newline>> \o JoinLines(Tail(pieces))

\* array.slice(start): from the end for a negative start; -0 is 0
Slice(array, start) ==
    LET from == IF start < 0
                THEN (IF Len(array) + start > 0 THEN Len(array) + start ELSE 0)
                ELSE (IF start < Len(array) THEN start ELSE Len(array))
    IN  SubSeq(array, from + 1, Len(array))

\* the content that keeps the oldest quarter of the lines
RotatedOldest(content) ==
    LET lines == Split(Trim(content))
        keepCount == (Len(lines) * 25) \div 100
    IN  JoinLines(SubSeq(lines, 1, keepCount)) \o <<Newline>>

\* the content without the trim
RotatedNoTrim(content) ==
    LET lines == Split(content)
        keepCount == (Len(lines) * 25) \div 100
    IN  JoinLines(Slice(lines, 0 - keepCount)) \o <<Newline>>

\* newContent of checkAndRotate, from the content read
Rotated(content) ==
    LET lines == Split(Trim(content))
        keepCount == (Len(lines) * 25) \div 100
    IN  JoinLines(Slice(lines, 0 - keepCount)) \o <<Newline>>

\* what the file operations of one write do: all succeed, one of the
\* rotation step throws (its first operation that can is statSync, on an
\* existing file), or appendFileSync throws; a call that writes no entry
\* performs no file operation
IoOutcomes(f, latched) ==
    IF latched THEN {"ok"}
    ELSE IF f.exists THEN {"ok", "rotateFails", "appendFails"}
    ELSE {"ok", "appendFails"}

RedactChunk(c) ==
    CASE c.shape = "single" -> [c EXCEPT !.value = RedactMap(@)]
      [] c.shape = "array"  ->
            [c EXCEPT !.values = [i \in 1..Len(@) |-> RedactMap(@[i])]]
      [] OTHER              -> c
\* a marker that tells what kind of value it replaced
MaskTagged(value) == Str("[REDACTED:" \o value.t \o "]")

\* the literal marker that replaces the value of a configured key
Mask(value) == Str("[REDACTED]")

\* redactObject on a nested value: arrays are mapped, the keys of an object
\* are masked or recursed into, scalars are left untouched
RECURSIVE RedactValue(_)
RedactValue(x) ==
    CASE x.t = "node" ->
            Node([k \in DOMAIN x.v |->
                    IF ToLowerCase(k) \in redactFields THEN Mask(x.v[k])
                    ELSE RedactValue(x.v[k])])
      [] x.t = "arr"  -> Arr([i \in 1..Len(x.v) |-> RedactValue(x.v[i])])
      [] x.t = "obj"  -> Obj(RedactMap(x.v))
      [] OTHER        -> x
RedactBody(body) == RedactValue(body)
RedactResponse(r) ==
    [k \in DOMAIN r |->
        CASE k = "body"   -> RedactBody(r[k])
          [] k = "chunks" -> [i \in 1..Len(r[k]) |-> RedactChunk(r[k][i])]
          [] OTHER        -> r[k]]
\* redactObject(entry, redactFields) on a log entry
redactObject(entry) ==
    [k \in DOMAIN entry |->
        CASE k = "metadata" -> RedactMap(entry[k])
          [] k = "response" -> RedactResponse(entry[k])
          [] k = "request"  ->
                [f \in DOMAIN entry[k] |->
                    IF f = "body" THEN RedactBody(entry[k][f])
                    ELSE RedactMap(entry[k][f])]
          [] OTHER          -> entry[k]]

\* a rotation that is never due
RotationDueNever(file, io) == FALSE

\* existsSync, statSync and the size test of checkAndRotate; an exception
\* of the rotation step ends it before the file is touched
RotationDue(file, io) ==
    /\ file.exists
    /\ io # "rotateFails"
    /\ FileSize(file) > maxSizeBytes

checkAndRotate(file, io) ==
    IF RotationDue(file, io)
    THEN [exists |-> TRUE, content |-> Rotated(file.content)]
    ELSE file

\* JSON.stringify(redactedEntry) + '\n'
SerializedLine(entry) == <<LineText(redactObject(entry)), Newline>>

\* the exceptions of the file operations: those of the rotation step are
\* caught in checkAndRotate, that of appendFileSync in write; both are
\* reported with console.error
CaughtInRotate == {"rotateFails"}
CaughtInWrite == {"appendFails"}

\* a write whose catch lets the exception of appendFileSync through
writeThrowsUncaught(io) == io \notin {"ok"} \cup CaughtInRotate

\* whether logger.write(entry) leaves with an exception
writeThrows(io) == io \notin {"ok"} \cup CaughtInRotate \cup CaughtInWrite

write(file, entry, io) ==
    LET rotated == checkAndRotate(file, io)
    IN  IF io = "appendFails" THEN rotated
        ELSE [exists |-> TRUE,
              content |-> rotated.content \o SerializedLine(entry)]


(***************************************************************************)
(* State.                                                                  *)
(***************************************************************************)
VARIABLES
    surface,       \* "http" or "rpc": which interceptor this exchange runs
    pc,            \* "start", "running", "closed", "skipped", "settled"
    requestPath,   \* req.originalUrl || req.url (opts.path for an RPC call)
    isSSE,         \* the stream classifier of the exchange
    chunks,        \* what chunks.push collected
    textDeltas,    \* delta fragments collected by parseSSEChunk
    responseBody,  \* <<>> while undefined, else <<body>>
    logged,        \* the finalize latch
    logMetadata,   \* req.logMetadata / ctx.logMetadata
    written,       \* the entries handed to logger.write, in order
    file,          \* the log file: whether it exists, and its lines
    faithful,      \* the underlying response received, for the last handler
                   \* call, the calls an unwrapped response receives
    nCalls,        \* handler calls so far
    nLines,        \* lines carried by the payloads so far
    completions,   \* how many of the calls were json, send or end
    emitted,       \* payloads of the data lines passed to write/end, up to
                   \* and including the call that handed the entry to write
    rpcResult,     \* what loggerMiddleware returned or threw
    store,         \* the calls of logger.write in flight against the file
    pair,          \* the closures of two exchanges in flight together
    nextCalls      \* calls of next() by the Express middleware

vars ==
    << surface, pc, requestPath, isSSE, chunks, textDeltas,
       responseBody, logged, logMetadata, written, file, faithful,
       nCalls, nLines, completions, emitted, rpcResult, store, pair, options, nextCalls >>

\* the closure state of one exchange, as the wrappers see it
Cur ==
    [ isSSE |-> isSSE, chunks |-> chunks, textDeltas |-> textDeltas,
      responseBody |-> responseBody, logged |-> logged,
      logMetadata |-> logMetadata, written |-> written, file |-> file,
      requestPath |-> requestPath, forwarded |-> <<>>, thrown |-> FALSE ]

Call(op, args) == [op |-> op, args |-> args]
\* a wrapper reaches its original* call unless an exception left it before;
\* `records` is the number of entries handed to the store by then
Forward(st, op, args) ==
    IF st.thrown THEN st
    ELSE [st EXCEPT !.forwarded =
              Append(@, [op |-> op, args |-> args,
                         records |-> Len(st.written)])]

(***************************************************************************)
(* The Express response interceptor (expressMiddleware).                   *)
(***************************************************************************)
\* textDeltas.join('')
RECURSIVE Join(_)
Join(fragments) ==
    IF fragments = <<>> THEN "" ELSE Head(fragments) \o Join(Tail(fragments))

WithMetadata(st, entry) ==
    IF DOMAIN st.logMetadata # {}
    THEN entry @@ ("metadata" :> st.logMetadata)
    ELSE entry

\* a streaming entry that carries text even when no delta was accumulated
StreamingEntryAlwaysText(st) ==
    WithMetadata(st, [type |-> "http", path |-> st.requestPath,
                      response |-> [streaming |-> TRUE, chunks |-> st.chunks,
                                    text |-> Join(st.textDeltas)]])

\* the entry of the SSE streaming path of res.end
StreamingEntry(st) ==
    LET response ==
            IF Len(st.textDeltas) > 0
            THEN [streaming |-> TRUE, chunks |-> st.chunks,
                  text |-> Join(st.textDeltas)]
            ELSE [streaming |-> TRUE, chunks |-> st.chunks]
    IN  WithMetadata(st, [type |-> "http", path |-> st.requestPath,
                          response |-> response])

\* a regular entry that carries the chunks collected so far as well
RegularEntryKeepsChunks(st) ==
    LET response ==
            IF st.responseBody = <<>>
            THEN [streaming |-> FALSE, chunks |-> st.chunks]
            ELSE [streaming |-> FALSE, chunks |-> st.chunks,
                  body |-> st.responseBody[1]]
    IN  WithMetadata(st, [type |-> "http", path |-> st.requestPath,
                          response |-> response])

\* the entry of the regular path of res.end and of logResponse
RegularEntry(st) ==
    LET response ==
            IF st.responseBody = <<>>
            THEN [streaming |-> FALSE]
            ELSE [streaming |-> FALSE, body |-> st.responseBody[1]]
    IN  WithMetadata(st, [type |-> "http", path |-> st.requestPath,
                          response |-> response])

\* a write whose redactor masks the entry in place: the body, the chunks
\* and the metadata map the entry refers to are the closure's own objects
EmitRedactsInPlace(st, entry, io) ==
    [st EXCEPT !.written = Append(@, redactObject(entry)),
               !.file = write(st.file, entry, io),
               !.thrown = @ \/ writeThrows(io),
               !.responseBody = [i \in 1..Len(@) |-> RedactBody(@[i])],
               !.chunks = [i \in 1..Len(@) |-> RedactChunk(@[i])],
               !.logMetadata = RedactMap(@)]

\* logger.write(entry) from the closure
Emit(st, entry, io) ==
    [st EXCEPT !.written = Append(@, entry),
               !.file = write(st.file, entry, io),
               !.thrown = @ \/ writeThrows(io)]

\* the parser of the first revision (logger.ts 260-274): the first data
\* line only, {done: true} for the sentinel, no delta accumulation
ParseAndPushLegacy(st, text) ==
    LET rests == DataRests(text)
        first == IF Head(rests) = DoneSentinel THEN [done |-> TRUE]
                 ELSE ParseDataLine(Head(rests))
    IN  IF rests = <<>> THEN st
        ELSE [st EXCEPT !.chunks =
                  Append(@, [shape |-> "single", value |-> first])]

\* a parse whose JSON.parse exception leaves the wrapper
ParseAndPushThrows(st, text) ==
    LET r == parseSSEChunk(text, st.textDeltas)
        bad == \E i \in 1..Len(DataRests(text)) :
                  /\ DataRests(text)[i] # DoneSentinel
                  /\ ~JsonParse(DataRests(text)[i]).ok
    IN  IF bad THEN [st EXCEPT !.thrown = TRUE]
        ELSE [st EXCEPT !.textDeltas = r.textDeltas,
                        !.chunks = IF r.parsed.shape = "null" THEN @
                                   ELSE Append(@, r.parsed)]

\* parseSSEChunk and `if (parsed) chunks.push(parsed)`
ParseAndPush(st, text) ==
    LET r == parseSSEChunk(text, st.textDeltas)
    IN  [st EXCEPT !.textDeltas = r.textDeltas,
                   !.chunks = IF r.parsed.shape = "null" THEN @
                              ELSE Append(@, r.parsed)]

\* a check that compares the header name as it is written
checkContentTypeForSSEExactName(headers) ==
    CASE headers.form = "array" ->
            \E i \in 1..Len(headers.items) :
                /\ i % 2 = 1 /\ i + 1 <= Len(headers.items)
                /\ headers.items[i] = "Content-Type"
                /\ IncludesEventStream(headers.items[i + 1])
      [] headers.form = "map" ->
            \E i \in 1..Len(headers.pairs) :
                /\ headers.pairs[i][1] = "Content-Type"
                /\ IncludesEventStream(headers.pairs[i][2])
      [] OTHER -> FALSE

\* checkContentTypeForSSE: an array is read two items at a time, a map
\* entry by entry; no headers, no signal
checkContentTypeForSSE(headers) ==
    CASE headers.form = "array" ->
            \E i \in 1..Len(headers.items) :
                /\ i % 2 = 1 /\ i + 1 <= Len(headers.items)
                /\ ToLowerCase(headers.items[i]) = "content-type"
                /\ IncludesEventStream(headers.items[i + 1])
      [] headers.form = "map" ->
            \E i \in 1..Len(headers.pairs) :
                /\ ToLowerCase(headers.pairs[i][1]) = "content-type"
                /\ IncludesEventStream(headers.pairs[i][2])
      [] OTHER -> FALSE

\* a setHeader that stores what the last header says
ResSetHeaderOverwrites(st, name, value) ==
    LET seen == ToLowerCase(name) = "content-type" /\ IncludesEventStream(value)
    IN  Forward([st EXCEPT !.isSSE = seen], "setHeader", <<name, value>>)

ResSetHeader(st, name, value) ==
    LET seen == ToLowerCase(name) = "content-type" /\ IncludesEventStream(value)
    IN  Forward([st EXCEPT !.isSSE = @ \/ seen], "setHeader", <<name, value>>)

\* writeHead(statusCode, statusMessageOrHeaders, maybeHeaders)
ResWriteHead(st, statusMessageOrHeaders, maybeHeaders) ==
    LET headers ==
            IF maybeHeaders.form = "undefined"
                 /\ statusMessageOrHeaders.form \in {"map", "array"}
            THEN statusMessageOrHeaders
            ELSE maybeHeaders
    IN  Forward([st EXCEPT !.isSSE = @ \/ checkContentTypeForSSE(headers)],
                "writeHead", <<statusMessageOrHeaders, maybeHeaders>>)

\* a res.write that takes the text of a byte payload from String(chunk),
\* the comma-separated byte values
ResWriteNoDecode(st, chunk) ==
    LET chunkStr == IF chunk.kind = "bytes"
                    THEN <<[prefix |-> "", rest |-> "100,97,116,97"]>>
                    ELSE decodeChunk(chunk)
        sniffed == [st EXCEPT !.isSSE = @ \/ looksLikeSSE(chunkStr)]
        seen ==
            IF ~Truthy(chunk) THEN st
            ELSE IF sniffed.isSSE THEN ParseAndPush(sniffed, chunkStr)
            ELSE sniffed
    IN  Forward(seen, "write", chunk)

\* a res.write that parses only when the exchange was classified before
\* this call
ResWriteParsesBeforeSniffing(st, chunk) ==
    LET chunkStr == decodeChunk(chunk)
        sniffed == [st EXCEPT !.isSSE = @ \/ looksLikeSSE(chunkStr)]
        seen ==
            IF ~Truthy(chunk) THEN st
            ELSE IF st.isSSE THEN ParseAndPush(sniffed, chunkStr)
            ELSE sniffed
    IN  Forward(seen, "write", chunk)

ResWrite(st, chunk) ==
    LET chunkStr == decodeChunk(chunk)
        sniffed == [st EXCEPT !.isSSE = @ \/ looksLikeSSE(chunkStr)]
        seen ==
            IF ~Truthy(chunk) THEN st
            ELSE IF sniffed.isSSE THEN ParseAndPush(sniffed, chunkStr)
            ELSE sniffed
    IN  Forward(seen, "write", chunk)

OriginalEnd(st, chunk) == Forward(st, "end", chunk)

\* a res.end that drops the call once the record has been logged
ResEndSwallows(st, chunk, io) ==
    IF st.logged THEN st
    ELSE LET latched == [st EXCEPT !.logged = TRUE]
             parsed ==
                 IF latched.isSSE /\ Truthy(chunk)
                 THEN ParseAndPush(latched, decodeChunk(chunk))
                 ELSE latched
             entry == IF parsed.isSSE THEN StreamingEntry(parsed)
                      ELSE RegularEntry(parsed)
         IN  OriginalEnd(Emit(parsed, entry, io), chunk)

\* a res.end that sniffs its payload the way res.write does
ResEndSniffs(st, chunk, io) ==
    IF st.logged THEN OriginalEnd(st, chunk)
    ELSE LET latched == [st EXCEPT !.logged = TRUE,
                                   !.isSSE = @ \/ (Truthy(chunk) /\
                                       looksLikeSSE(decodeChunk(chunk)))]
             parsed ==
                 IF latched.isSSE /\ Truthy(chunk)
                 THEN ParseAndPush(latched, decodeChunk(chunk))
                 ELSE latched
             entry == IF parsed.isSSE THEN StreamingEntry(parsed)
                      ELSE RegularEntry(parsed)
         IN  OriginalEnd(Emit(parsed, entry, io), chunk)

ResEnd(st, chunk, io) ==
    IF st.logged THEN OriginalEnd(st, chunk)
    ELSE LET latched == [st EXCEPT !.logged = TRUE]
             parsed ==
                 IF latched.isSSE /\ Truthy(chunk)
                 THEN ParseAndPush(latched, decodeChunk(chunk))
                 ELSE latched
             entry == IF parsed.isSSE THEN StreamingEntry(parsed)
                      ELSE RegularEntry(parsed)
         IN  OriginalEnd(Emit(parsed, entry, io), chunk)

\* a logResponse without the `if (logged) return` guard
logResponseNoLatch(st, io) ==
    LET latched == [st EXCEPT !.logged = TRUE]
    IN  Emit(latched, RegularEntry(latched), io)

logResponse(st, io) ==
    IF st.logged THEN st
    ELSE LET latched == [st EXCEPT !.logged = TRUE]
         IN  Emit(latched, RegularEntry(latched), io)

\* Express: res.json serializes and calls this.send, res.send calls
\* this.json for an object and this.end otherwise; both go through the
\* wrappers installed on the response
RECURSIVE ResSend(_, _, _), ResJson(_, _, _)

OriginalSend(st, body, io) ==
    LET sent == Forward(st, "send", body)
    IN  IF body.t = "obj" THEN ResJson(sent, body, io)
        ELSE ResEnd(sent, BodyChunk(body), io)

OriginalJson(st, body, io) ==
    ResSend(Forward(st, "json", body), Str(JsonStringify(body)), io)

\* a res.json that logs before it captures the body
ResJsonLogsFirst(st, body, io) ==
    OriginalJson([logResponse(st, io) EXCEPT !.responseBody = <<body>>],
                 body, io)

\* a res.json that calls originalJson before it logs
ResJsonForwardsFirst(st, body, io) ==
    LET sent == OriginalJson(st, body, io)
    IN  logResponse([sent EXCEPT !.responseBody = <<body>>], io)

ResJson(st, body, io) ==
    OriginalJson(logResponse([st EXCEPT !.responseBody = <<body>>], io), body, io)

\* a res.send that records the payload as it was passed
ResSendNoParse(st, body, io) ==
    LET seen ==
            IF st.logged THEN st
            ELSE logResponse([st EXCEPT !.responseBody = <<body>>], io)
    IN  OriginalSend(seen, body, io)

ResSend(st, body, io) ==
    LET parsedBody ==
            IF body.t = "str" /\ JsonParseBody(body.v).ok
            THEN JsonParseBody(body.v).value
            ELSE body
        seen ==
            IF st.logged THEN st
            ELSE logResponse([st EXCEPT !.responseBody = <<parsedBody>>], io)
    IN  OriginalSend(seen, body, io)


(***************************************************************************)
(* Actions of an HTTP exchange.                                            *)
(***************************************************************************)
NoUrl == [pathname |-> <<>>, query |-> ""]
NoResult == [kind |-> "none"]
NoStore == [kind |-> "none"]
EmptyMap == [k \in {} |-> ""]

ChunkText(chunk) ==
    CASE chunk.kind = "string" -> chunk.text
      [] chunk.kind = "bytes"  -> Utf8Decode(chunk.bytes)
      [] OTHER                 -> <<>>

\* the calls an unwrapped Express response receives for one handler call:
\* json goes on to send and send to end (or to json, for an object)
Unwrapped(call) ==
    LET endOf(text) == Call("end", BodyChunk(Str(text)))
        jsonOf(body) ==
            << Call("json", body), Call("send", Str(JsonStringify(body))),
               endOf(JsonStringify(body)) >>
    IN  CASE call.op = "json" -> jsonOf(call.args)
          [] call.op = "send" ->
                IF call.args.t = "obj"
                THEN <<Call("send", call.args)>> \o jsonOf(call.args)
                ELSE <<Call("send", call.args), endOf(call.args.v)>>
          [] call.op = "attachMetadata" -> <<>>
          [] OTHER -> <<call>>

SameCalls(a, b) ==
    /\ Len(a) = Len(b)
    /\ \A i \in 1..Len(a) : a[i].op = b[i].op /\ a[i].args = b[i].args

\* the closure state after a handler call, and the bookkeeping of the call
Commit(st, call, lines, completion) ==
    /\ isSSE' = st.isSSE
    /\ chunks' = st.chunks
    /\ textDeltas' = st.textDeltas
    /\ responseBody' = st.responseBody
    /\ logged' = st.logged
    /\ logMetadata' = st.logMetadata
    /\ written' = st.written
    /\ file' = st.file
    /\ faithful' = SameCalls(st.forwarded, Unwrapped(call))
    /\ nCalls' = nCalls + 1
    /\ nLines' = nLines + Len(lines)
    /\ completions' = completions + (IF completion THEN 1 ELSE 0)
    /\ emitted' = IF logged THEN emitted ELSE emitted \o DataRests(lines)
    /\ UNCHANGED <<surface, pc, requestPath, rpcResult, store, pair, options, nextCalls >>

InHandler == surface = "http" /\ pc = "running" /\ nCalls < MaxCalls

\* a middleware that wraps the response whatever the path
ExpressMiddlewareCallUngated(paths, url, accept) ==
    /\ surface = "http" /\ pc = "start"
    /\ requestPath' = url
    /\ pc' = "running"
    /\ logMetadata' = EmptyMap
    /\ isSSE' = (accept = EventStream)
    /\ UNCHANGED << surface, chunks, textDeltas, responseBody, logged,
                    written, file, faithful, nCalls, nLines,
                    completions, emitted, rpcResult, store, pair, options >>
    /\ nextCalls' = nextCalls + 1

\* a middleware that takes any Accept value naming the media type
ExpressMiddlewareCallAcceptIncludes(paths, url, accept) ==
    /\ surface = "http" /\ pc = "start"
    /\ requestPath' = url
    /\ IF ~shouldLogPath(url, paths.includePaths, paths.ignorePaths)
       THEN /\ pc' = "skipped"
            /\ UNCHANGED <<isSSE, logMetadata>>
       ELSE /\ pc' = "running"
            /\ logMetadata' = EmptyMap
            /\ isSSE' = (accept \in {EventStream, "text/event-stream, */*"})
    /\ UNCHANGED << surface, chunks, textDeltas, responseBody, logged,
                    written, file, faithful, nCalls, nLines,
                    completions, emitted, rpcResult, store, pair, options >>
    /\ nextCalls' = nextCalls + 1

\* the middleware function: the path gate, the closure state, next(); the
\* path lists of the logger are read here and nowhere else
\* a gate without `return`: the rejected exchange is passed on, then wrapped
\* like an accepted one and passed on again
ExpressMiddlewareCallNextTwice(paths, url, accept) ==
    /\ surface = "http" /\ pc = "start"
    /\ requestPath' = url
    /\ pc' = "running"
    /\ logMetadata' = EmptyMap
    /\ isSSE' = (accept = EventStream)
    /\ nextCalls' = nextCalls +
          (IF shouldLogPath(url, paths.includePaths, paths.ignorePaths)
           THEN 1 ELSE 2)
    /\ UNCHANGED << surface, chunks, textDeltas, responseBody, logged,
                    written, file, faithful, nCalls, nLines,
                    completions, emitted, rpcResult, store, pair, options >>

\* the middleware: the gate and `return next()`, or the wrappers and next()
ExpressMiddlewareCall(paths, url, accept) ==
    /\ surface = "http" /\ pc = "start"
    /\ requestPath' = url
    /\ IF ~shouldLogPath(url, paths.includePaths, paths.ignorePaths)
       THEN /\ pc' = "skipped"
            /\ UNCHANGED <<isSSE, logMetadata>>
       ELSE /\ pc' = "running"
            /\ logMetadata' = EmptyMap
            /\ isSSE' = (accept = EventStream)
    /\ UNCHANGED << surface, chunks, textDeltas, responseBody, logged,
                    written, file, faithful, nCalls, nLines,
                    completions, emitted, rpcResult, store, pair, options >>
    /\ nextCalls' = nextCalls + 1
ExpressMiddleware ==
    \E paths \in PathOptions, url \in RequestUrls, accept \in AcceptValues :
        ExpressMiddlewareCall(paths, url, accept)


\* a handler call after `return next()`: the response has no wrapper, the
\* call reaches Express as it is; attachMetadata creates req.logMetadata
PassThroughCall(call) ==
    /\ surface = "http" /\ pc = "skipped" /\ nCalls < MaxCalls
    /\ logMetadata' = IF call.op = "attachMetadata"
                      THEN attachMetadata(logMetadata, call.args)
                      ELSE logMetadata
    /\ faithful' = TRUE
    /\ nCalls' = nCalls + 1
    /\ completions' = completions + (IF call.op \in {"end", "json"} THEN 1 ELSE 0)
    /\ UNCHANGED << surface, pc, requestPath, isSSE, chunks, textDeltas,
                    responseBody, logged, written, file, nLines, emitted,
                    rpcResult, store, pair, options, nextCalls >>
\* what the handler of an exchange the gate let pass unwrapped calls
PassThrough ==
    \E call \in
        { Call("write", StringChunk(<<DataLine(DeltaA)>>)),
          Call("end", NoChunk),
          Call("json", MessageBody),
          Call("attachMetadata", "orderId" :> "v1") } :
        PassThroughCall(call)

SetHeaderCall(name, value) ==
    /\ InHandler
    /\ Commit(ResSetHeader(Cur, name, value),
              Call("setHeader", <<name, value>>), <<>>, FALSE)
SetHeader ==
    \E name \in HeaderNames, value \in HeaderValues : SetHeaderCall(name, value)

WriteHeadCall(statusMessageOrHeaders, maybeHeaders) ==
    /\ InHandler
    /\ Commit(ResWriteHead(Cur, statusMessageOrHeaders, maybeHeaders),
              Call("writeHead", <<statusMessageOrHeaders, maybeHeaders>>),
              <<>>, FALSE)
\* writeHead(status), writeHead(status, headers),
\* writeHead(status, message), writeHead(status, message, headers)
WriteHead ==
    \/ \E a \in HeaderArgs \cup {NoHeaders, StatusMessage} :
          WriteHeadCall(a, NoHeaders)
    \/ \E b \in HeaderArgs : WriteHeadCall(StatusMessage, b)

WriteCall(chunk) ==
    /\ InHandler
    /\ Commit(ResWrite(Cur, chunk), Call("write", chunk), ChunkText(chunk), FALSE)
Write ==
    \E chunk \in ChunksUpTo(MaxLines - nLines) : WriteCall(chunk)

EndCall(chunk, io) ==
    /\ InHandler
    /\ Commit(ResEnd(Cur, chunk, io), Call("end", chunk), ChunkText(chunk), TRUE)
End ==
    \E chunk \in ChunksUpTo(MaxLines - nLines), io \in IoOutcomes(file, logged) :
        EndCall(chunk, io)

JsonCall(body, io) ==
    /\ InHandler
    /\ Commit(ResJson(Cur, body, io), Call("json", body), <<>>, TRUE)
Json ==
    \E body \in JsonBodies, io \in IoOutcomes(file, logged) : JsonCall(body, io)

SendCall(body, io) ==
    /\ InHandler
    /\ Commit(ResSend(Cur, body, io), Call("send", body), <<>>, TRUE)
Send ==
    \E body \in SendBodies, io \in IoOutcomes(file, logged) : SendCall(body, io)

\* an attachMetadata that re-emits the record with the new metadata
AttachMetadataCallRelogs(metadata) ==
    /\ InHandler
    /\ LET merged == [Cur EXCEPT !.logMetadata = attachMetadata(@, metadata)]
           entry == IF merged.isSSE THEN StreamingEntry(merged)
                    ELSE RegularEntry(merged)
       IN  Commit(IF merged.logged THEN Emit(merged, entry, "ok") ELSE merged,
                  Call("attachMetadata", metadata), <<>>, FALSE)

\* attachMetadata(req, metadata), called by the handler
AttachMetadataCall(metadata) ==
    /\ InHandler
    /\ Commit([Cur EXCEPT !.logMetadata = attachMetadata(@, metadata)],
              Call("attachMetadata", metadata), <<>>, FALSE)
AttachMetadata ==
    \E metadata \in MetaMaps : AttachMetadataCall(metadata)

\* the peer closes the connection before the handler has completed the
\* response, and the handler makes no further call; the middleware has
\* registered no listener on the response or the request
ConnectionClose ==
    /\ surface = "http" /\ pc = "running" /\ completions = 0
    /\ pc' = "closed"
    /\ UNCHANGED << surface, requestPath, isSSE, chunks, textDeltas,
                    responseBody, logged, logMetadata, written, file, faithful,
                    nCalls, nLines, completions, emitted, rpcResult, store, pair, options, nextCalls >>

(***************************************************************************)
(* Actions of an RPC call (trpcMiddleware / loggerMiddleware).             *)
(***************************************************************************)
RpcUrl == [pathname |-> <<"getUser">>, query |-> ""]
\* what opts.next() resolves to, and the errors it rejects with
RpcResults ==
    { [ok |-> TRUE, data |-> MessageBody],
      [ok |-> FALSE, error |-> "not found"] }
RpcErrors == {"boom"}

\* a success entry whose statusCode ignores result.ok
RpcSuccessEntryAlways200(result, metadata) ==
    LET base == [type |-> "trpc", path |-> RpcUrl, statusCode |-> 200,
                 response |-> IF "data" \in DOMAIN result
                              THEN [body |-> result.data, streaming |-> FALSE]
                              ELSE [streaming |-> FALSE]]
        withMeta == IF DOMAIN metadata # {}
                    THEN base @@ ("metadata" :> metadata) ELSE base
    IN  IF "error" \in DOMAIN result
        THEN withMeta @@ ("error" :> [message |-> result.error])
        ELSE withMeta

RpcSuccessEntry(result, metadata) ==
    LET base == [type |-> "trpc", path |-> RpcUrl,
                 statusCode |-> IF result.ok THEN 200 ELSE 500,
                 response |-> IF "data" \in DOMAIN result
                              THEN [body |-> result.data, streaming |-> FALSE]
                              ELSE [streaming |-> FALSE]]
        withMeta == IF DOMAIN metadata # {}
                    THEN base @@ ("metadata" :> metadata) ELSE base
    IN  IF "error" \in DOMAIN result
        THEN withMeta @@ ("error" :> [message |-> result.error])
        ELSE withMeta

RpcFailureEntry(error, metadata) ==
    LET base == [type |-> "trpc", path |-> RpcUrl, statusCode |-> 500,
                 error |-> [message |-> error]]
    IN  IF DOMAIN metadata # {}
        THEN base @@ ("metadata" :> metadata) ELSE base

\* loggerMiddleware up to `await opts.next()`.  ctx.logMetadata is set to
\* {} only when the context has none: the map of a context that already
\* has one is left as it is
TrpcMiddleware ==
    /\ surface = "rpc" /\ pc = "start"
    /\ requestPath' = RpcUrl
    /\ pc' = IF shouldLogPath(RpcUrl, includePaths, ignorePaths)
             THEN "running" ELSE "skipped"
    /\ UNCHANGED << surface, isSSE, chunks, textDeltas, responseBody,
                    logged, logMetadata, written, file, faithful,
                    nCalls, nLines, completions, emitted, rpcResult, store, pair, options, nextCalls >>

\* attachTrpcMetadata(ctx, metadata), by the procedure or after the call
AttachTrpcMetadata ==
    /\ surface = "rpc" /\ pc \in {"running", "settled"}
    /\ \E metadata \in MetaMaps :
          logMetadata' = attachMetadata(logMetadata, metadata)
    /\ UNCHANGED << surface, pc, requestPath, isSSE, chunks,
                    textDeltas, responseBody, logged, written, file,
                    faithful, nCalls, nLines, completions, emitted, rpcResult, store, pair, options, nextCalls >>

\* the caller, after a call that succeeded, starts another one; `ctx` is
\* the context object of the call before, with the logMetadata it has by
\* now, or a new one
TrpcNextCall ==
    /\ surface = "rpc" /\ pc = "settled" /\ nCalls + 1 < MaxRpcCalls
    /\ rpcResult.kind = "returned" /\ rpcResult.value.ok
    /\ pc' = "start"
    /\ nCalls' = nCalls + 1
    /\ written' = <<>>
    /\ rpcResult' = NoResult
    /\ \E ctx \in {"same", "new"} :
          logMetadata' = IF ctx = "same" THEN logMetadata ELSE EmptyMap
    /\ UNCHANGED << surface, requestPath, isSSE, chunks, textDeltas,
                    responseBody, logged, file, faithful, nLines,
                    completions, emitted, store, pair, options, nextCalls >>

\* what the caller of loggerMiddleware gets when logger.write(entry) was
\* the last statement before `outcome`
AfterWrite(io, outcome) ==
    IF writeThrows(io) THEN [kind |-> "thrown", error |-> "write error"]
    ELSE outcome

\* opts.next() resolves: the entry is written and the result returned
TrpcResolveCall(result, io) ==
    /\ surface = "rpc" /\ pc = "running"
    /\ LET entry == RpcSuccessEntry(result, logMetadata)
       IN  /\ written' = Append(written, entry)
           /\ file' = write(file, entry, io)
           /\ rpcResult' = AfterWrite(io, [kind |-> "returned", value |-> result])
    /\ pc' = "settled"
    /\ UNCHANGED << surface, requestPath, isSSE, chunks, textDeltas,
                    responseBody, logged, logMetadata, faithful, nCalls,
                    nLines, completions, emitted, store, pair, options, nextCalls >>
TrpcResolve ==
    \E result \in RpcResults, io \in IoOutcomes(file, FALSE) :
        TrpcResolveCall(result, io)

\* a catch that re-throws without writing an entry
TrpcRejectCallSilent(error, io) ==
    /\ surface = "rpc" /\ pc = "running"
    /\ rpcResult' = [kind |-> "thrown", error |-> error]
    /\ pc' = "settled"
    /\ UNCHANGED << surface, requestPath, isSSE, chunks, textDeltas,
                    responseBody, logged, logMetadata, faithful, nCalls,
                    nLines, completions, emitted, store, pair, written, file,
                    options, nextCalls >>

\* a catch that writes the entry and returns the error as a non-ok result
TrpcRejectCallSwallows(error, io) ==
    /\ surface = "rpc" /\ pc = "running"
    /\ LET entry == RpcFailureEntry(error, logMetadata)
       IN  /\ written' = Append(written, entry)
           /\ file' = write(file, entry, io)
           /\ rpcResult' = [kind |-> "returned",
                            value |-> [ok |-> FALSE, error |-> error]]
    /\ pc' = "settled"
    /\ UNCHANGED << surface, requestPath, isSSE, chunks, textDeltas,
                    responseBody, logged, logMetadata, faithful, nCalls,
                    nLines, completions, emitted, store, pair, options, nextCalls >>

\* opts.next() rejects: the entry is written and the error re-thrown
TrpcRejectCall(error, io) ==
    /\ surface = "rpc" /\ pc = "running"
    /\ LET entry == RpcFailureEntry(error, logMetadata)
       IN  /\ written' = Append(written, entry)
           /\ file' = write(file, entry, io)
           /\ rpcResult' = AfterWrite(io, [kind |-> "thrown", error |-> error])
    /\ pc' = "settled"
    /\ UNCHANGED << surface, requestPath, isSSE, chunks, textDeltas,
                    responseBody, logged, logMetadata, faithful, nCalls,
                    nLines, completions, emitted, store, pair, options, nextCalls >>
TrpcReject ==
    \E error \in RpcErrors, io \in IoOutcomes(file, FALSE) :
        TrpcRejectCall(error, io)

(***************************************************************************)
(* The statements of logger.write, one file operation at a time, for the   *)
(* entries of several exchanges in flight (surface = "store").             *)
(***************************************************************************)
ExchangeVars ==
    << surface, pc, requestPath, isSSE, chunks, textDeltas, responseBody,
       logged, logMetadata, written, faithful, nCalls, nLines, completions,
       emitted, rpcResult, pair, options, nextCalls >>

Writers == 1..MaxWriters
StoreEntry(n) == [type |-> "http", requestId |-> n]
RECURSIVE PriorContent(_)
PriorContent(n) ==
    IF n = 0 THEN <<>>
    ELSE PriorContent(n - 1) \o SerializedLine(StoreEntry(n))
\* a log file left by an earlier run, with n lines
PriorFile(n) == [exists |-> TRUE, content |-> PriorContent(n)]

IdleWriter == [pc |-> "idle"]
StoreFor(n, empty) ==
    [ kind |-> "store",
      writers |-> [w \in Writers |-> IdleWriter],
      nextId |-> n + 1,     \* requestId of the next entry
      appends |-> 0,        \* calls of write that have returned
      failures |-> 0,       \* calls of write with a failing file operation
      pristine |-> empty,   \* an empty log at the start and no failure since
      threw |-> FALSE ]     \* some call of write left with an exception
InFlight == {w \in Writers : store.writers[w].pc # "idle"}

\* a scheduler that lets another call of write run between two file
\* operations of this one
ScheduledAnyTime(w) == TRUE

\* write and checkAndRotate are synchronous from the first file operation
\* to the last (existsSync, statSync, readFileSync, writeFileSync,
\* appendFileSync, no await): JavaScript runs them to completion before any
\* other exchange of the process runs
Scheduled(w) == InFlight \subseteq {w}

StoreOutcomes ==
    IF store.failures < MaxFailures THEN IoOutcomes(file, FALSE) ELSE {"ok"}

\* logger.write(entry) is called
StoreWrite(w) ==
    /\ surface = "store" /\ Scheduled(w)
    /\ store.writers[w].pc = "idle"
    /\ store.appends + Cardinality(InFlight) < MaxAppends
    /\ \E io \in StoreOutcomes :
          store' = [store EXCEPT
                      !.writers[w] = [pc |-> "rotate", io |-> io, prior |-> file,
                                      entry |-> StoreEntry(store.nextId)],
                      !.nextId = @ + 1,
                      !.failures = @ + (IF io = "ok" THEN 0 ELSE 1)]
    /\ UNCHANGED file
    /\ UNCHANGED ExchangeVars

\* checkAndRotate: existsSync, statSync, the size test
StoreStat(w) ==
    /\ surface = "store" /\ Scheduled(w)
    /\ store.writers[w].pc = "rotate"
    /\ store' = [store EXCEPT !.writers[w].pc =
                    IF RotationDue(file, store.writers[w].io)
                    THEN "read" ELSE "append"]
    /\ UNCHANGED file
    /\ UNCHANGED ExchangeVars

\* checkAndRotate: readFileSync
StoreRead(w) ==
    /\ surface = "store" /\ Scheduled(w)
    /\ store.writers[w].pc = "read"
    /\ store' = [store EXCEPT !.writers[w] =
                    [pc |-> "rewrite", io |-> @.io, prior |-> @.prior,
                     entry |-> @.entry, content |-> file.content]]
    /\ UNCHANGED file
    /\ UNCHANGED ExchangeVars

\* checkAndRotate: writeFileSync(newContent)
StoreRewrite(w) ==
    /\ surface = "store" /\ Scheduled(w)
    /\ store.writers[w].pc = "rewrite"
    /\ file' = [exists |-> TRUE, content |-> Rotated(store.writers[w].content)]
    /\ store' = [store EXCEPT !.writers[w] =
                    [pc |-> "append", io |-> @.io, prior |-> @.prior,
                     entry |-> @.entry]]
    /\ UNCHANGED ExchangeVars

\* a write with one try/catch around rotation and append: an exception of
\* the rotation step leaves before appendFileSync
StoreAppendSkippedByRotation(w) ==
    /\ surface = "store" /\ Scheduled(w)
    /\ store.writers[w].pc = "append"
    /\ LET io == store.writers[w].io
       IN  /\ file' = IF io # "ok" THEN file
                      ELSE [exists |-> TRUE,
                            content |-> file.content
                                \o SerializedLine(store.writers[w].entry)]
           /\ store' = [store EXCEPT
                          !.writers[w] = IdleWriter,
                          !.appends = @ + 1,
                          !.pristine = @ /\ io = "ok",
                          !.threw = @ \/ writeThrows(io)]
    /\ UNCHANGED ExchangeVars

\* a write that puts the new line in front of the content of the file
StoreAppendAtFront(w) ==
    /\ surface = "store" /\ Scheduled(w)
    /\ store.writers[w].pc = "append"
    /\ LET io == store.writers[w].io
       IN  /\ file' = IF io = "appendFails" THEN file
                      ELSE [exists |-> TRUE,
                            content |-> SerializedLine(store.writers[w].entry)
                                \o file.content]
           /\ store' = [store EXCEPT
                          !.writers[w] = IdleWriter,
                          !.appends = @ + 1,
                          !.pristine = @ /\ io = "ok",
                          !.threw = @ \/ writeThrows(io)]
    /\ UNCHANGED ExchangeVars

\* appendFileSync(line), and the return of write
StoreAppend(w) ==
    /\ surface = "store" /\ Scheduled(w)
    /\ store.writers[w].pc = "append"
    /\ LET io == store.writers[w].io
       IN  /\ file' = IF io = "appendFails" THEN file
                      ELSE [exists |-> TRUE,
                            content |-> file.content
                                \o SerializedLine(store.writers[w].entry)]
           /\ store' = [store EXCEPT
                          !.writers[w] = IdleWriter,
                          !.appends = @ + 1,
                          !.pristine = @ /\ io = "ok",
                          !.threw = @ \/ writeThrows(io)]
    /\ UNCHANGED ExchangeVars

(***************************************************************************)
(* Two HTTP exchanges in flight together (surface = "pair"): the handlers' *)
(* calls interleave, each on the wrappers of its own response.             *)
(***************************************************************************)
Exchanges == {1, 2}
NoPair == [kind |-> "none"]
PairUrl(e) ==
    IF e = 1 THEN ApiUsersUrl
    ELSE [pathname |-> <<"api", "orders">>, query |-> ""]

\* the variables the middleware function declares for one request
FreshClosure(url) ==
    [ isSSE |-> FALSE, chunks |-> <<>>, textDeltas |-> <<>>,
      responseBody |-> <<>>, logged |-> FALSE, logMetadata |-> EmptyMap,
      written |-> <<>>, file |-> NoFile, requestPath |-> url,
      forwarded |-> <<>>, thrown |-> FALSE ]

PairStart ==
    [ kind |-> "pair",
      closures |-> [e \in Exchanges |-> FreshClosure(PairUrl(e))],
      \* the same calls made on an exchange that runs alone on its own file
      alone |-> [e \in Exchanges |-> FreshClosure(PairUrl(e))],
      calls |-> [e \in Exchanges |-> 0] ]

\* what a handler calls
PairCalls ==
    { Call("write", StringChunk(<<DataLine(DeltaA)>>)),
      Call("write", StringChunk(<<PlainLine>>)),
      Call("end", NoChunk),
      Call("json", MessageBody),
      Call("attachMetadata", "orderId" :> "v1") }

\* one handler call on the wrappers of a closure
Apply(st, call) ==
    CASE call.op = "write" -> ResWrite(st, call.args)
      [] call.op = "end"   -> ResEnd(st, call.args, "ok")
      [] call.op = "json"  -> ResJson(st, call.args, "ok")
      [] OTHER -> [st EXCEPT !.logMetadata = attachMetadata(@, call.args)]

\* closures whose finalize latch is one variable of the module
OwnedLatchShared(closures, e, st) ==
    [x \in Exchanges |->
        IF x = e THEN st ELSE [closures[x] EXCEPT !.logged = st.logged]]

\* isSSE, chunks, textDeltas, responseBody and logged are declared inside
\* the middleware function and req.logMetadata on the request: an
\* assignment by the wrappers of exchange e reaches e's variables only
Owned(closures, e, st) == [closures EXCEPT ![e] = st]

PairCall(e, call) ==
    /\ surface = "pair"
    /\ pair.calls[e] < MaxPairCalls
    /\ LET mine == [pair.closures[e] EXCEPT !.file = file]
           out == Apply(mine, call)
       IN  /\ file' = out.file
           /\ pair' = [pair EXCEPT
                         !.closures = Owned(@, e, [out EXCEPT !.file = NoFile,
                                                              !.forwarded = <<>>]),
                         !.alone[e] = [Apply(@, call) EXCEPT !.forwarded = <<>>],
                         !.calls[e] = @ + 1]
    /\ UNCHANGED << surface, pc, requestPath, isSSE, chunks, textDeltas,
                    responseBody, logged, logMetadata, written, faithful,
                    nCalls, nLines, completions, emitted, rpcResult, store,
                    options, nextCalls >>

(***************************************************************************)
(* The logger constructed with a redact option, writing one entry whose    *)
(* request and response bodies are nested values.                          *)
(***************************************************************************)
RedactOptions ==
    { NoOption,
      [given |-> TRUE, names |-> {"secret"}],
      [given |-> TRUE, names |-> {"apiKey"}] }
LoggerOptions(kind) ==
    IF kind = "redact" THEN {[redact |-> o] : o \in RedactOptions}
    ELSE {[redact |-> NoOption]}

\* bodies: a text, and objects with a plain and a sensitive key
Leaves ==
    { Str("hello"),
      Node(("email" :> Str("e")) @@ ("password" :> Str("p"))),
      Node("apiKey" :> Str("k")),
      Node("Secret" :> Str("s")) }
RECURSIVE NestedValues(_)
NestedValues(depth) ==
    IF depth = 0 THEN Leaves
    ELSE LET inner == NestedValues(depth - 1)
         IN  Leaves
               \cup {Arr(<<a>>) : a \in inner}
               \cup {Arr(<<a, b>>) : a \in inner, b \in Leaves}
               \cup {Node(k :> a) : k \in {"user", "Password"}, a \in inner}

\* the entry logResponse builds: request: requestInfo, response: { body }
BodiesEntry(requestBody, body) ==
    [ type |-> "http", path |-> ApiUsersUrl,
      request |-> [body |-> requestBody],
      response |-> [streaming |-> FALSE, body |-> body] ]
BodiesEntries ==
    LET flat == {Str("hello"), Node("apiKey" :> Str("k"))}
        nested == NestedValues(MaxDepth)
    IN  {BodiesEntry(x, y) : x \in nested, y \in flat}
          \cup {BodiesEntry(x, y) : x \in flat, y \in nested}

\* the entries of a streamed HTTP exchange (request: requestInfo with body,
\* query and headers) and of an RPC call, with one key in every map
WholeEntry(kind, key) ==
    IF kind = "http"
    THEN [ type |-> "http", path |-> ApiUsersUrl,
           request |-> [body |-> Node(key :> Str("b")),
                        query |-> (key :> "q"), headers |-> (key :> "h")],
           response |-> [streaming |-> TRUE,
                         chunks |-> <<[shape |-> "single",
                                       value |-> (key :> "c")]>>],
           metadata |-> (key :> "m") ]
    ELSE [ type |-> "trpc", path |-> RpcUrl,
           request |-> [body |-> Node(key :> Str("b"))],
           response |-> [streaming |-> FALSE, body |-> Node(key :> Str("r"))],
           metadata |-> (key :> "m") ]
WholeEntries ==
    {WholeEntry(kind, key) : kind \in {"http", "trpc"},
                             key \in {"token", "apiKey", "Secret", "email"}}

\* logger.write(entry)
LoggerWriteCall(entry) ==
    /\ written' = <<entry>>
    /\ file' = write(file, entry, "ok")
    /\ UNCHANGED << surface, pc, requestPath, isSSE, chunks, textDeltas,
                    responseBody, logged, logMetadata, faithful, nCalls,
                    nLines, completions, emitted, rpcResult, store, pair,
                    options, nextCalls >>
LoggerWrite ==
    /\ surface = "redact"
    /\ written = <<>>
    /\ \E entry \in BodiesEntries \cup WholeEntries : LoggerWriteCall(entry)

(***************************************************************************)
(* Specification.                                                          *)
(***************************************************************************)
\* an HTTP exchange starts with no log file, an RPC call with no log file
\* or with one of two lines, the store with no file or one of any length
StartFiles(kind) ==
    CASE kind = "http" -> {NoFile}
      [] kind = "rpc"  -> {NoFile, PriorFile(2)}
      [] kind = "store" -> {NoFile} \cup {PriorFile(n) : n \in 0..MaxPriorLines}
      [] OTHER         -> {NoFile}

Init ==
    /\ surface \in {"http", "rpc", "store", "pair", "redact"}
    /\ pc = "start"
    /\ requestPath = NoUrl
    /\ isSSE = FALSE
    /\ chunks = <<>>
    /\ textDeltas = <<>>
    /\ responseBody = <<>>
    /\ logged = FALSE
    /\ logMetadata = EmptyMap
    /\ written = <<>>
    /\ file \in StartFiles(surface)
    /\ faithful = TRUE
    /\ nCalls = 0
    /\ nLines = 0
    /\ completions = 0
    /\ emitted = <<>>
    /\ rpcResult = NoResult
    /\ store = IF surface = "store"
               THEN StoreFor((Len(file.content) \div 2), FileSize(file) = 0)
               ELSE NoStore
    /\ pair = IF surface = "pair" THEN PairStart ELSE NoPair
    /\ options \in LoggerOptions(surface)
    /\ nextCalls = 0

Next ==
    \/ ExpressMiddleware
    \/ PassThrough
    \/ SetHeader
    \/ WriteHead
    \/ Write
    \/ End
    \/ Json
    \/ Send
    \/ AttachMetadata
    \/ ConnectionClose
    \/ TrpcMiddleware
    \/ AttachTrpcMetadata
    \/ TrpcResolve
    \/ TrpcReject
    \/ TrpcNextCall
    \/ \E w \in Writers : StoreWrite(w)
    \/ \E w \in Writers : StoreStat(w)
    \/ \E w \in Writers : StoreRead(w)
    \/ \E w \in Writers : StoreRewrite(w)
    \/ \E w \in Writers : StoreAppend(w)
    \/ \E e \in Exchanges, call \in PairCalls : PairCall(e, call)
    \/ LoggerWrite

Spec == Init /\ [][Next]_vars


(***************************************************************************)
(* Properties of the HTTP interceptor.                                     *)
(***************************************************************************)
HttpRecorded == surface = "http" /\ Len(written) = 1
TheRecord == written[1]

\* the chunk a data line's payload stands for in a record
ExpectedChunk(rest) ==
    CASE rest = DoneSentinel -> [type |-> "done"]
      [] rest = DeltaA       -> [type |-> "text-delta", delta |-> "a"]
      [] rest = DeltaB       -> [type |-> "text-delta", delta |-> "b"]
      [] OTHER               -> [raw |-> rest]

\* the delta fragment a data line's payload contributes
DeltaText(rest) ==
    CASE rest = DeltaA -> "a"
      [] rest = DeltaB -> "b"
      [] OTHER         -> ""

RECURSIVE EmittedText(_)
EmittedText(rests) ==
    IF rests = <<>> THEN ""
    ELSE DeltaText(Head(rests)) \o EmittedText(Tail(rests))

HasDelta(rests) == \E i \in 1..Len(rests) : rests[i] \in {DeltaA, DeltaB}

\* the entries of response.chunks with every array entry spliced in place
RECURSIVE Flatten(_)
Flatten(entries) ==
    IF entries = <<>> THEN <<>>
    ELSE (IF Head(entries).shape = "array" THEN Head(entries).values
          ELSE <<Head(entries).value>>) \o Flatten(Tail(entries))

\* C1: in an HTTP exchange at most one record is ever handed to the store,
\* and once the handler has completed the response (end, json or send)
\* exactly one has been, however many writes and completion calls there
\* were; the latch is set exactly when the record has been handed over.
C1_ExactlyOneRecord ==
    surface = "http" =>
        /\ Len(written) <= 1
        /\ (pc # "skipped" /\ completions >= 1) => Len(written) = 1
        /\ logged <=> Len(written) = 1

\* several completion calls after a write, and still one record
C1_Witness ==
    /\ surface = "http" /\ completions >= 2 /\ nLines >= 1
    /\ Len(written) = 1 /\ logged

\* C2: an exchange whose connection closed before the handler called end,
\* json or send has a record emitted for it.
C2_ClosedExchangeRecorded ==
    (surface = "http" /\ pc = "closed") => Len(written) = 1

\* C3: a json(b) call that completes an exchange not classified as
\* streaming hands over the one record, with response.streaming = false
\* and response.body = b.
C3_JsonBodyLogged ==
    [][\A b \in JsonBodies :
          ( /\ ~logged /\ ~isSSE
            /\ \E io \in IoOutcomes(file, logged) : JsonCall(b, io) )
          => /\ Len(written') = 1
             /\ written'[1].response = [streaming |-> FALSE, body |-> b]
      ]_vars

\* the record of an exchange completed with json(PasswordBody)
C3_Witness ==
    /\ HttpRecorded /\ ~isSSE
    /\ TheRecord.response = [streaming |-> FALSE, body |-> PasswordBody]

\* C4: a record built while the stream classifier is true has
\* response.streaming = true, whichever completion call builds it.
C4_StreamingFlagFollowsClassifier ==
    [][(surface = "http" /\ Len(written') > Len(written) /\ isSSE')
          => written'[Len(written')].response.streaming
      ]_vars

\* C5: in a streaming record response.chunks is a flat list with one entry
\* per data line the handler emitted, in emission order, however the
\* lines were grouped into write calls.
C5_ChunksFlatPerDataLine ==
    (HttpRecorded /\ TheRecord.response.streaming) =>
        LET recorded == TheRecord.response.chunks
        IN  /\ Len(recorded) = Len(emitted)
            /\ \A i \in 1..Len(recorded) :
                  /\ recorded[i].shape = "single"
                  /\ recorded[i].value = ExpectedChunk(emitted[i])

\* C6 (as stated): the record's response.text is the concatenation, in
\* emission order, of the deltas of all text-delta events the handler
\* emitted, and is present exactly when there was at least one.
C6_TextIsAllDeltas ==
    HttpRecorded =>
        /\ "text" \in DOMAIN TheRecord.response <=> HasDelta(emitted)
        /\ "text" \in DOMAIN TheRecord.response
              => TheRecord.response.text = EmittedText(emitted)

\* C6: in a streaming record response.text is the concatenation, in
\* emission order, of the deltas of all text-delta events emitted up to and
\* including the completing end call, and is present exactly when there
\* was at least one; a non-streaming record has no response.text.
C6_StreamingTextIsAllDeltas ==
    HttpRecorded =>
        IF TheRecord.response.streaming
        THEN /\ "text" \in DOMAIN TheRecord.response <=> HasDelta(emitted)
             /\ "text" \in DOMAIN TheRecord.response
                   => TheRecord.response.text = EmittedText(emitted)
        ELSE "text" \notin DOMAIN TheRecord.response

\* a streaming record that carries the two deltas in emission order
C6_Witness ==
    /\ HttpRecorded /\ TheRecord.response.streaming
    /\ emitted = <<DeltaB, DeltaA>>
    /\ "text" \in DOMAIN TheRecord.response
    /\ TheRecord.response.text = "ba"

C8_InterceptionObservational ==
    surface = "http" => faithful

\* a streaming exchange completed twice whose store write had failed
C8_Witness ==
    /\ surface = "http" /\ faithful /\ isSSE /\ logged
    /\ completions >= 2 /\ Len(written) = 1 /\ ~file.exists

\* C9: each attachMetadata call merges its map into the accumulator (its
\* keys override, the other keys stay), and a record is built with the
\* accumulator as its metadata, or without a metadata field when the
\* accumulator is empty.
C9_MetadataMerged ==
    [][ /\ \A md \in MetaMaps :
              AttachMetadataCall(md) =>
                  /\ DOMAIN logMetadata' = DOMAIN logMetadata \cup DOMAIN md
                  /\ \A key \in DOMAIN logMetadata' :
                        logMetadata'[key] = IF key \in DOMAIN md THEN md[key]
                                            ELSE logMetadata[key]
        /\ (surface = "http" /\ Len(written') > Len(written)) =>
              LET entry == written'[Len(written')]
              IN  IF DOMAIN logMetadata = {}
                  THEN "metadata" \notin DOMAIN entry
                  ELSE /\ "metadata" \in DOMAIN entry
                       /\ entry.metadata = logMetadata
      ]_vars

\* a record with an overriding value and a key from another call
C9_Witness ==
    /\ HttpRecorded /\ nCalls = 3
    /\ "metadata" \in DOMAIN TheRecord
    /\ TheRecord.metadata = [orderId |-> "v2", Token |-> "v1"]

\* C10: an attachMetadata or attachTrpcMetadata call made after the record
\* was emitted leaves the records handed over and the log file as they
\* were, and there is never a second record.
C10_LateAttachNoEffect ==
    /\ [](Len(written) <= 1)
    /\ [][ ( /\ Len(written) = 1
             /\ AttachMetadata \/ AttachTrpcMetadata )
           => (written' = written /\ file' = file)
       ]_vars

\* metadata attached after a record without metadata was emitted
C10_Witness ==
    /\ Len(written) = 1
    /\ "metadata" \notin DOMAIN written[1]
    /\ DOMAIN logMetadata # {}


(***************************************************************************)
(* Properties of the rotating log store.                                   *)
(***************************************************************************)
IsText(token) == token.t = "text"
\* the serialized records of a content, in file order
RECURSIVE TextsOf(_)
TextsOf(content) ==
    IF content = <<>> THEN <<>>
    ELSE (IF IsText(Head(content)) THEN <<Head(content).v>> ELSE <<>>)
         \o TextsOf(Tail(content))
LineCount(f) == Len(TextsOf(f.content))
LastLines(texts, k) == SubSeq(texts, Len(texts) - k + 1, Len(texts))
IsSuffix(texts, of) ==
    Len(texts) <= Len(of) /\ texts = LastLines(of, Len(texts))
\* every line is one serialized record ended by a newline, and the records
\* stand in the order of their requestIds
WholeLines(content) ==
    /\ Len(content) % 2 = 0
    /\ \A k \in 1..Len(content) :
          IF k % 2 = 1
          THEN /\ IsText(content[k])
               /\ \E n \in 1..(MaxPriorLines + MaxAppends + 1) :
                     content[k].v = redactObject(StoreEntry(n))
          ELSE IsNewline(content[k])
    /\ \A k, m \in 1..Len(content) :
          (k % 2 = 1 /\ m % 2 = 1 /\ k < m)
              => content[k].v.requestId < content[m].v.requestId

\* the write of exchange w as it reaches appendFileSync
Writing(w) == store.writers[w]
\* w's write found the file over the size limit
FoundOversize(w) ==
    Writing(w).prior.exists /\ ContentBytes(Writing(w).prior.content) > maxSizeBytes
\* the lines retained by a rotation of n lines
Retained(n) == IF n \div 4 = 0 THEN n ELSE n \div 4

\* C11: an append that finds the file over maxSizeBytes with n >= 1 lines
\* leaves the floor(n * 0.25) most recent of them followed by the new record.
C11_KeepsQuarterOfLines ==
    [][\A w \in Writers :
          ( /\ StoreAppend(w)
            /\ Writing(w).io = "ok" /\ FoundOversize(w)
            /\ LineCount(Writing(w).prior) >= 1 )
          => LET before == TextsOf(Writing(w).prior.content)
             IN  TextsOf(file'.content) =
                     LastLines(before, (Len(before) * 25) \div 100)
                     \o <<redactObject(Writing(w).entry)>>
      ]_vars

C14_TenAppendsTruncated ==
    (surface = "store" /\ store.pristine /\ store.appends = 10 /\ InFlight = {})
        => (LineCount(file) >= 1 /\ LineCount(file) < 10)

C14_Witness ==
    /\ surface = "store" /\ store.pristine /\ store.appends = 10
    /\ InFlight = {} /\ LineCount(file) = 4

\* C15: every line of the file is one complete serialized record, and a
\* rotation leaves a contiguous suffix of the lines it found.
C15_WholeLinesSuffix ==
    /\ [](surface = "store" => WholeLines(file.content))
    /\ [][\A w \in Writers :
             StoreRewrite(w)
                 => IsSuffix(TextsOf(file'.content), TextsOf(file.content))
         ]_vars

\* a rotation that dropped the four oldest of five lines
C15_Witness ==
    /\ surface = "store"
    /\ \E w \in Writers :
          /\ Writing(w).pc = "append"
          /\ LineCount(Writing(w).prior) = 5
          /\ TextsOf(file.content) = <<redactObject(StoreEntry(5))>>

\* the outcomes of the file operations of one write
AllOutcomes == {"ok", "rotateFails", "appendFails"}
FailingOutcomes == {"rotateFails", "appendFails"}

\* C16: a failing file operation of rotation or append stays inside write:
\* write returns without an exception, the handler's json, send or end call
\* still reaches the underlying response, and an RPC call still returns
\* its result or throws its own exception.
C16_StoreFailureContained ==
    [][ /\ \A w \in Writers : StoreAppend(w) => ~store'.threw
        \* an entry was handed to write and the file did not get its line
        /\ (surface = "http" /\ Len(written') > Len(written) /\ file' = file)
              => faithful'
        /\ \A io \in FailingOutcomes :
              /\ \A result \in RpcResults :
                    TrpcResolveCall(result, io)
                        => rpcResult' = [kind |-> "returned", value |-> result]
              /\ \A error \in RpcErrors :
                    TrpcRejectCall(error, io)
                        => rpcResult' = [kind |-> "thrown", error |-> error]
      ]_vars

\* an RPC call that threw its own exception although the append of its
\* entry to the existing file failed
C16_Witness ==
    /\ surface = "rpc" /\ pc = "settled"
    /\ rpcResult = [kind |-> "thrown", error |-> "boom"]
    /\ Len(written) = 1 /\ file = PriorFile(2)

\* C17: a logged RPC call has no record before its continuation settles
\* and exactly one record, of type trpc, once it has resolved or rejected.
C17_OneRpcRecord ==
    surface = "rpc" =>
        IF pc = "settled"
        THEN Len(written) = 1 /\ written[1].type = "trpc"
        ELSE written = <<>>

\* a rejected call with its one record
C17_Witness ==
    /\ surface = "rpc" /\ pc = "settled" /\ rpcResult.kind = "thrown"
    /\ Len(written) = 1 /\ "error" \in DOMAIN written[1]

\* C18: the statusCode of an RPC record is 200 exactly when the call
\* returned a result with ok = true, and 500 otherwise.
C18_RpcStatusCode ==
    (surface = "rpc" /\ pc = "settled") =>
        LET succeeded == rpcResult.kind = "returned" /\ rpcResult.value.ok
        IN  written[1].statusCode = IF succeeded THEN 200 ELSE 500

\* a call that resolved with ok = false, recorded with 500
C18_Witness ==
    /\ surface = "rpc" /\ pc = "settled"
    /\ rpcResult.kind = "returned" /\ ~rpcResult.value.ok
    /\ written[1].statusCode = 500

\* C19: when the continuation rejects with e the entry is written and e is
\* thrown, when it resolves with r the entry is written and r is returned.
C19_RpcOutcomeUnchanged ==
    [][\A io \in AllOutcomes :
          /\ \A error \in RpcErrors :
                TrpcRejectCall(error, io) =>
                    /\ rpcResult' = [kind |-> "thrown", error |-> error]
                    /\ Len(written') = Len(written) + 1
                    /\ written'[Len(written')].error.message = error
          /\ \A result \in RpcResults :
                TrpcResolveCall(result, io) =>
                    /\ rpcResult' = [kind |-> "returned", value |-> result]
                    /\ Len(written') = Len(written) + 1
      ]_vars

\* a rejected call whose entry is the last line of the file
C19_Witness ==
    /\ surface = "rpc" /\ pc = "settled"
    /\ rpcResult = [kind |-> "thrown", error |-> "boom"]
    /\ LineCount(file) >= 1
    /\ TextsOf(file.content)[LineCount(file)] = redactObject(written[1])
    /\ written[1].error.message = "boom"

RecordView(st) ==
    [ isSSE |-> st.isSSE, chunks |-> st.chunks, textDeltas |-> st.textDeltas,
      responseBody |-> st.responseBody, logMetadata |-> st.logMetadata,
      logged |-> st.logged, written |-> st.written ]

\* the lines of the log file
FileLines(f) == SelectSeq(f.content, IsText)

Redacting ==
    /\ surface = "redact" /\ Len(written) = 1
    /\ "body" \in DOMAIN written[1].response
TheLine == FileLines(file)[1].v

\* whether a key is one of the configured names, compared without case
Configured(key) ==
    \E name \in redactFields : ToLowerCase(name) = ToLowerCase(key)

\* out is x with the value of every configured key masked, at any depth
\* and inside arrays, and with every other value as it was
RECURSIVE MaskedCopy(_, _)
MaskedCopy(x, out) ==
    CASE x.t = "node" ->
            /\ out.t = "node"
            /\ DOMAIN out.v = DOMAIN x.v
            /\ \A k \in DOMAIN x.v :
                  IF Configured(k) THEN out.v[k] = Str("[REDACTED]")
                  ELSE MaskedCopy(x.v[k], out.v[k])
      [] x.t = "arr" ->
            /\ out.t = "arr"
            /\ Len(out.v) = Len(x.v)
            /\ \A i \in 1..Len(x.v) : MaskedCopy(x.v[i], out.v[i])
      [] OTHER -> out = x

\* C22: in the emitted line every key of the request body and of the
\* response body that is a configured redaction name, compared without
\* case, has the value "[REDACTED]" at any depth and inside arrays, and
\* every other field keeps its value.
C22_RedactionTotalPrecise ==
    Redacting =>
        /\ MaskedCopy(written[1].request.body, TheLine.request.body)
        /\ MaskedCopy(written[1].response.body, TheLine.response.body)

\* C23: for every nested value and every redaction set, redacting the
\* redacted value again gives what redacting once gave, for the request
\* body, the response body and the entry as a whole.
C23_RedactionIdempotent ==
    Redacting =>
        /\ RedactValue(RedactValue(written[1].request.body))
              = RedactValue(written[1].request.body)
        /\ RedactValue(RedactValue(written[1].response.body))
              = RedactValue(written[1].response.body)
        /\ redactObject(TheLine) = TheLine

\* a body whose masked key held an object nested in an array, under a
\* redaction set given to the constructor
C23_Witness ==
    /\ Redacting
    /\ options.redact.given
    /\ written[1].request.body =
          Arr(<<Node("Password" :> Node("Secret" :> Str("s")))>>)
    /\ TheLine.request.body # written[1].request.body



(***************************************************************************)
(* Properties of the path gate and of the stream classifier.               *)
(***************************************************************************)
\* the paths the allow list and the deny list of the model let through
UnderApi(url) == Len(url.pathname) >= 1 /\ url.pathname[1] = "api"

\* C24: an exchange whose path, without its query string, the include or
\* ignore list rejects is passed on unwrapped and never has a record,
\* whatever its handler calls; an accepted exchange is recorded with the
\* full original URL, query string included, as its path.
C24_PathGate ==
    /\ [][\A paths \in PathOptions, url \in RequestUrls, accept \in AcceptValues :
            ExpressMiddlewareCall(paths, url, accept) =>
                /\ requestPath' = url
                /\ pc' = (IF UnderApi(url) THEN "running" ELSE "skipped")]_vars
    /\ [](surface = "http" =>
            /\ pc = "skipped" => (written = <<>> /\ ~file.exists /\ ~logged)
            /\ \A i \in 1..Len(written) :
                  /\ written[i].path = requestPath
                  /\ i <= Len(FileLines(file)) =>
                        FileLines(file)[i].v.path = written[i].path
                  /\ written[i].path.query = "?x=1")

\* a rejected exchange whose URL carries a query string and whose handler
\* wrote, attached metadata and completed the response
C24_Witness ==
    /\ surface = "http" /\ pc = "skipped"
    /\ requestPath = HealthProbeUrl
    /\ nCalls >= 3 /\ completions >= 1 /\ DOMAIN logMetadata # {}
    /\ written = <<>>



\* the stream state of the exchange, as a record is built from it
StreamView(st) ==
    [isSSE |-> st.isSSE, chunks |-> st.chunks, textDeltas |-> st.textDeltas]

\* a handler call that was a write of one line
OneLineWritten ==
    /\ surface = "http" /\ pc = "running"
    /\ nCalls' = nCalls + 1 /\ nLines' = nLines + 1
    /\ completions' = completions

C26_ClassifierMonotonic ==
    [][(surface = "http" /\ pc = "running" /\ isSSE) => isSSE']_vars

\* an exchange classified by its first call and still classified after a
\* setHeader naming another content type
C26_Witness ==
    /\ surface = "http" /\ pc = "running" /\ isSSE
    /\ nCalls >= 3 /\ nLines = 1 /\ completions = 0
    /\ Len(chunks) = 1

\* a handler call that carried no payload and completed nothing
HeaderCalled ==
    /\ surface = "http" /\ pc = "running"
    /\ nCalls' = nCalls + 1 /\ nLines' = nLines
    /\ completions' = completions /\ logMetadata' = logMetadata

\* the header arguments that name the content type as an event stream
SignalArgs ==
    { [form |-> "map", pairs |-> <<<<"Content-Type", EventStream>>>>],
      [form |-> "array", items |-> <<"Cache-Control", "no-cache",
                                     "content-type", EventStream>>] }

\* C27: setHeader with the content-type name and a value containing the
\* event-stream media type, and writeHead(status, headers) or
\* writeHead(status, message, headers) whose headers, a map or a flat
\* key/value array, carry it under a content-type key in any letter case,
\* set the classifier; every other header call leaves it as it was.
C27_HeaderSignals ==
    [][HeaderCalled =>
          /\ \A name \in HeaderNames, value \in HeaderValues :
                SetHeaderCall(name, value) =>
                    isSSE' = (isSSE \/ (name = "Content-Type"
                                 /\ value = "text/event-stream; charset=utf-8"))
          /\ \A a \in HeaderArgs \cup {NoHeaders, StatusMessage} :
                WriteHeadCall(a, NoHeaders) =>
                    isSSE' = (isSSE \/ a \in SignalArgs)
          /\ \A b \in HeaderArgs :
                WriteHeadCall(StatusMessage, b) =>
                    isSSE' = (isSSE \/ b \in SignalArgs)]_vars

\* classified by a header call alone: nothing was written
C27_Witness ==
    /\ surface = "http" /\ pc = "running" /\ isSSE
    /\ nCalls = 1 /\ nLines = 0 /\ chunks = <<>> /\ faithful



\* whether a text starts with, or has a line starting with, data: or event:
HasFramedLine(text) ==
    \E i \in 1..Len(text) : text[i].prefix \in {"data: ", "event: "}
IsDataLine(line) == line.prefix = "data: "

\* a handler call that carried lines and completed nothing
LinesWritten ==
    /\ surface = "http" /\ pc = "running"
    /\ nCalls' = nCalls + 1 /\ nLines' > nLines
    /\ completions' = completions

\* C28: on an exchange not classified so far, a write whose decoded payload
\* has a line starting with data: or event: sets the classifier, no header
\* signal needed, and each data line of that very write has its chunk in
\* the chunk sequence; a write without such a line leaves it unclassified.
C28_SniffedWriteParsed ==
    [][(LinesWritten /\ ~isSSE) =>
          \A chunk \in ChunksUpTo(MaxLines - nLines) :
              WriteCall(chunk) =>
                  LET text == ChunkText(chunk)
                      dataLines == SelectSeq(text, IsDataLine)
                  IN  /\ isSSE' = HasFramedLine(text)
                      /\ Flatten(chunks') =
                            IF HasFramedLine(text)
                            THEN [i \in 1..Len(dataLines) |->
                                      ExpectedChunk(dataLines[i].rest)]
                            ELSE <<>>]_vars

\* the first call of the exchange was a write of two data lines: it set
\* the classifier and both lines are in the chunk sequence
C28_Witness ==
    /\ surface = "http" /\ pc = "running"
    /\ nCalls = 1 /\ nLines = 2 /\ isSSE
    /\ Len(chunks) = 1 /\ chunks[1].shape = "array"
    /\ Len(chunks[1].values) = 2



\* C29: the classifier of an accepted exchange starts true exactly when the
\* Accept header equals the event-stream media type, and false when it is
\* absent or a list that only contains it; from false it becomes true only
\* in a setHeader, writeHead or write call.
C29_InitialClassifier ==
    /\ [][\A paths \in PathOptions, url \in RequestUrls, accept \in AcceptValues :
            (ExpressMiddlewareCall(paths, url, accept) /\ pc' = "running") =>
                isSSE' = (accept = "text/event-stream")]_vars
    /\ [][(surface = "http" /\ pc = "running" /\ ~isSSE /\ isSSE') =>
            (SetHeader \/ WriteHead \/ Write)]_vars

\* classified before the handler made any call
C29_Witness ==
    /\ surface = "http" /\ pc = "running"
    /\ isSSE /\ nCalls = 0 /\ chunks = <<>>



\* what the record of a send(body) carries as response.body
SentBody(body) ==
    CASE body = Str("{\"message\":\"hello\"}") -> Obj("message" :> "hello")
      [] OTHER -> body

\* a handler call that completed an exchange not finalized before
Finalizing ==
    /\ surface = "http" /\ pc = "running" /\ ~logged
    /\ nCalls' = nCalls + 1 /\ completions' = completions + 1

\* C30: send(body) on an exchange not finalized so far hands over the one
\* record, whose response.body is the parsed value when body is a text
\* that parses as JSON and the payload itself when it is a text that does
\* not parse or is no text; whatever the store does, nothing is thrown and
\* the underlying response receives send with the body as it was passed.
C30_SendFallback ==
    [][Finalizing =>
          \A body \in SendBodies, io \in AllOutcomes :
              SendCall(body, io) =>
                  /\ Len(written') = 1
                  /\ written'[1].response.body = SentBody(body)
                  /\ logged' /\ faithful']_vars

\* a send of a text that does not parse, recorded as that text
C30_Witness ==
    /\ surface = "http" /\ pc = "running" /\ logged
    /\ nCalls = 1 /\ completions = 1 /\ faithful
    /\ Len(written) = 1
    /\ "body" \in DOMAIN written[1].response
    /\ written[1].response.body = Str("plain text")



(***************************************************************************)
(* Properties of the record's shape, the parser and the end payload.       *)
(***************************************************************************)
\* the two shapes of response in an HTTP record
StreamingShape(response) ==
    /\ response.streaming
    /\ "chunks" \in DOMAIN response
    /\ "body" \notin DOMAIN response
RegularShape(response) ==
    /\ ~response.streaming
    /\ "chunks" \notin DOMAIN response
    /\ "text" \notin DOMAIN response

\* C31: every HTTP record handed to the store, and every line written for
\* it, is either streaming with a chunks list and no body, or not streaming
\* with neither chunks nor text.
C31_TwoRecordShapes ==
    surface = "http" =>
        /\ \A i \in 1..Len(written) :
              \/ StreamingShape(written[i].response)
              \/ RegularShape(written[i].response)
        /\ \A k \in 1..Len(FileLines(file)) :
              \/ StreamingShape(FileLines(file)[k].v.response)
              \/ RegularShape(FileLines(file)[k].v.response)

\* a record built by json or send on an exchange that had collected chunks:
\* it is not streaming and carries none of them
C31_Witness ==
    /\ HttpRecorded /\ isSSE /\ chunks # <<>>
    /\ RegularShape(TheRecord.response)
    /\ "body" \in DOMAIN TheRecord.response



\* the chunks of a chunk sequence are those of the given data payloads
ChunksOf(entries, rests) ==
    /\ Len(Flatten(entries)) = Len(rests)
    /\ \A i \in 1..Len(rests) :
          /\ Flatten(entries)[i] = ExpectedChunk(rests[i])
          /\ rests[i] = "oops" => Flatten(entries)[i] = [raw |-> "oops"]

\* C32: a data line whose payload is neither JSON nor the sentinel becomes
\* the chunk {raw: payload}; the write or end call that carries it returns
\* and is forwarded as it was, and the data lines after it, in the same
\* payload or in later calls, have their chunks too.
C32_BadJsonKeptRaw ==
    surface = "http" =>
        /\ faithful
        /\ (pc = "running" /\ ~logged) => ChunksOf(chunks, emitted)
        /\ (Len(written) = 1 /\ written[1].response.streaming) =>
               ChunksOf(written[1].response.chunks, emitted)

\* a payload that is not JSON, then a text delta in a later write
C32_Witness ==
    /\ surface = "http" /\ pc = "running" /\ faithful
    /\ nCalls = 2 /\ emitted = <<NotJson, DeltaA>>
    /\ Len(chunks) = 2 /\ chunks[1].value = [raw |-> NotJson]
    /\ textDeltas = <<"a">>



(***************************************************************************)
(* Properties of failed writes and of the order of lines.                  *)
(***************************************************************************)
\* C33 (as stated): a write with a failing file operation, of the rotation
\* step or of the append step, leaves the log file without a line for its
\* record.
C33_FailedWriteDropsRecord ==
    [][\A w \in Writers :
          (StoreAppend(w) /\ Writing(w).io \in FailingOutcomes) =>
              TextsOf(file'.content) = TextsOf(file.content)]_vars

\* C33 (amended): a failing append leaves the file as it was, without a
\* line for the record; a failing rotation step leaves the file unrotated,
\* as the write found it, and the record is appended to it all the same.
C33_OnlyAppendFailureDrops ==
    [][\A w \in Writers :
          StoreAppend(w) =>
              /\ Writing(w).io = "appendFails" => file' = file
              /\ Writing(w).io = "rotateFails" =>
                    /\ file = Writing(w).prior
                    /\ TextsOf(file'.content) =
                          Append(TextsOf(file.content),
                                 redactObject(Writing(w).entry))]_vars

\* the rotation of an oversize file failed and the record was appended to
\* the unrotated file
C33_Witness ==
    /\ surface = "store" /\ store.appends = 1 /\ store.failures = 1
    /\ InFlight = {}
    /\ LineCount(file) = MaxPriorLines + 1
    /\ TextsOf(file.content)[MaxPriorLines + 1]
          = redactObject(StoreEntry(MaxPriorLines + 1))



\* C34: the metadata accumulator is empty when an exchange starts, on the
\* HTTP surface and on the RPC surface, whatever exchange or call came
\* before on the same request or context object.
C34_AccumulatorEmptyAtStart ==
    [][((ExpressMiddleware \/ TrpcMiddleware) /\ pc' = "running")
          => logMetadata' = EmptyMap]_vars



\* the entries parseSSEChunk makes of the data lines of a payload
EndChunks(chunk) ==
    LET rests == DataRests(ChunkText(chunk))
    IN  [i \in 1..Len(rests) |-> ExpectedChunk(rests[i])]

\* C35: end never changes the classification.  An exchange not classified
\* as a stream when end is called is recorded with streaming = false and no
\* chunks, data lines in the end payload or not; on a classified exchange
\* the data lines of the end payload are appended to chunks and the record
\* carries them.
C35_EndNeverSniffs ==
    [][Finalizing =>
          \A chunk \in Chunks, io \in AllOutcomes :
              ( /\ nLines' = nLines + Len(ChunkText(chunk))
                /\ emitted' = emitted \o DataRests(ChunkText(chunk))
                /\ EndCall(chunk, io) ) =>
                  /\ isSSE' = isSSE
                  /\ Len(written') = 1
                  /\ ~isSSE =>
                        /\ RegularShape(written'[1].response)
                        /\ chunks' = <<>>
                  /\ isSSE =>
                        /\ StreamingShape(written'[1].response)
                        /\ written'[1].response.chunks = chunks'
                        /\ Flatten(chunks')
                              = Flatten(chunks) \o EndChunks(chunk)]_vars

\* end was the only call and carried a data line: the record is a regular
\* one
C35_Witness ==
    /\ HttpRecorded /\ nCalls = 1 /\ completions = 1
    /\ ~isSSE /\ emitted = <<DeltaA>>
    /\ RegularShape(TheRecord.response) /\ chunks = <<>>



\* C36: the lines of the file stand in the order of their appends.  A step
\* that is no append leaves the lines as they are or removes lines from the
\* front, the rest in the same order; an append that succeeds puts the new
\* record after all lines there are, and one that fails changes nothing.
C36_AppendOrder ==
    [][surface = "store" =>
          LET before == TextsOf(file.content)
              after == TextsOf(file'.content)
          IN  /\ (\A w \in Writers : ~StoreAppend(w))
                    => IsSuffix(after, before)
              /\ \A w \in Writers :
                    StoreAppend(w) =>
                        after = IF Writing(w).io = "appendFails" THEN before
                                ELSE before
                                       \o <<redactObject(Writing(w).entry)>>
      ]_vars

\* after a rotation and two appends the older record stands before the
\* newer one, which is the last line
C36_Witness ==
    /\ surface = "store" /\ InFlight = {} /\ store.appends >= 2
    /\ ~store.pristine /\ store.failures = 0
    /\ LineCount(file) >= 3
    /\ LineCount(file) < store.nextId - 1
    /\ LET texts == TextsOf(file.content)
       IN  /\ texts[Len(texts)] = redactObject(StoreEntry(store.nextId - 1))
           /\ texts[Len(texts) - 1] = redactObject(StoreEntry(store.nextId - 2))



(***************************************************************************)
(* Properties of what redaction leaves alone and of the order of logging   *)
(* and forwarding.                                                         *)
(***************************************************************************)
\* C37: writing a record changes none of the values the record was built
\* from.  After the completing call the entry handed to the store, the body
\* captured from json or send, the chunks and the metadata map hold what
\* they held before the line was redacted, and the underlying response
\* received the body as the handler passed it.
C37_RedactionCopies ==
    [][Finalizing =>
          /\ logMetadata' = logMetadata
          /\ \A io \in AllOutcomes :
                /\ \A body \in JsonBodies :
                      JsonCall(body, io) =>
                          /\ faithful'
                          /\ responseBody' = <<body>>
                          /\ written'[1].response.body = body
                          /\ chunks' = chunks
                /\ \A body \in SendBodies :
                      SendCall(body, io) =>
                          /\ faithful'
                          /\ responseBody' = <<SentBody(body)>>
                          /\ written'[1].response.body = SentBody(body)
                          /\ chunks' = chunks]_vars

\* json(PasswordBody) with a Token attached: the line is masked, the entry,
\* the captured body and the metadata map are not
C37_Witness ==
    /\ HttpRecorded /\ faithful /\ completions = 1
    /\ responseBody = <<PasswordBody>>
    /\ "body" \in DOMAIN TheRecord.response
    /\ TheRecord.response.body = PasswordBody
    /\ DOMAIN logMetadata = {"Token"} /\ logMetadata["Token"] = "v1"
    /\ Len(FileLines(file)) = 1
    /\ FileLines(file)[1].v.response.body = Obj("password" :> "[REDACTED]")
    /\ "metadata" \in DOMAIN FileLines(file)[1].v
    /\ FileLines(file)[1].v.metadata["Token"] = "[REDACTED]"



\* the maps of a record besides its bodies: metadata, request.query,
\* request.headers and the payload of every chunk
RecordMaps(entry) ==
    LET request == entry.request
        response == entry.response
    IN  (IF "metadata" \in DOMAIN entry THEN <<entry.metadata>> ELSE <<>>)
        \o (IF "query" \in DOMAIN request THEN <<request.query>> ELSE <<>>)
        \o (IF "headers" \in DOMAIN request THEN <<request.headers>> ELSE <<>>)
        \o (IF "chunks" \in DOMAIN response
            THEN [i \in 1..Len(response.chunks) |-> response.chunks[i].value]
            ELSE <<>>)
\* a record written for a whole entry, HTTP or RPC
WholeRecord ==
    /\ surface = "redact" /\ Len(written) = 1
    /\ "metadata" \in DOMAIN written[1]

\* C38: in the emitted line of an HTTP or an RPC record a key of metadata,
\* request.query, request.headers or of a streaming chunk that is a
\* configured name has the value "[REDACTED]", and every other key of these
\* maps keeps its value.
C38_WholeRecordRedacted ==
    WholeRecord =>
        LET maps == RecordMaps(written[1])
            masked == RecordMaps(TheLine)
        IN  /\ Len(masked) = Len(maps)
            /\ \A i \in 1..Len(maps) :
                  /\ DOMAIN masked[i] = DOMAIN maps[i]
                  /\ \A k \in DOMAIN maps[i] :
                        masked[i][k] = IF Configured(k) THEN "[REDACTED]"
                                       ELSE maps[i][k]

\* the same for the names that were configured in lower case, which the
\* redactor finds
LowerCaseRedacted ==
    (\A name \in redactFields : ToLowerCase(name) = name)
        => C38_WholeRecordRedacted



\* the record carries the metadata map as it is, when it has a key
MetadataAsAt(entry, metadata) ==
    IF DOMAIN metadata = {} THEN "metadata" \notin DOMAIN entry
    ELSE "metadata" \in DOMAIN entry /\ entry.metadata = metadata

\* C39: json or send on an exchange not finalized so far hands the record
\* to the store, and the store appends its line, before the original json
\* or send is invoked; the record's metadata is the map as it was at the
\* call, and no later call of the handler changes the record or the file.
C39_LoggedBeforeForwarded ==
    /\ [][Finalizing =>
             \A io \in AllOutcomes :
                 /\ \A body \in JsonBodies :
                       JsonCall(body, io) =>
                           LET sent == ResJson(Cur, body, io).forwarded
                           IN  /\ sent[1].op = "json" /\ sent[1].records = 1
                               /\ MetadataAsAt(written'[1], logMetadata)
                               /\ io = "ok" =>
                                     FileLines(file') = FileLines(file)
                                         \o <<LineText(redactObject(written'[1]))>>
                 /\ \A body \in SendBodies :
                       SendCall(body, io) =>
                           LET sent == ResSend(Cur, body, io).forwarded
                           IN  /\ sent[1].op = "send" /\ sent[1].records = 1
                               /\ MetadataAsAt(written'[1], logMetadata)
                               /\ io = "ok" =>
                                     FileLines(file') = FileLines(file)
                                         \o <<LineText(redactObject(written'[1]))>>
        ]_vars
    /\ [][(surface = "http" /\ pc = "running" /\ logged)
             => (written' = written /\ file' = file)]_vars

\* metadata attached after json does not reach the record
C39_Witness ==
    /\ HttpRecorded /\ completions = 1 /\ nCalls = 3 /\ faithful
    /\ "metadata" \in DOMAIN TheRecord
    /\ TheRecord.metadata = ("orderId" :> "v1")
    /\ logMetadata = ("orderId" :> "v2")
    /\ Len(FileLines(file)) = 1
    /\ FileLines(file)[1].v.metadata = ("orderId" :> "v1")



\* C40: the Express middleware calls next once per exchange.  For a path
\* the gate rejects it does so with the response as it was, no wrapper
\* state set up; otherwise it does so with the wrappers in place, so that
\* every call of the handler goes through them: a completing call latches
\* the exchange and hands over its record, and what reaches the underlying
\* response is what the handler called.
C40_NextOnce ==
    /\ [](surface = "http" => nextCalls = (IF pc = "start" THEN 0 ELSE 1))
    /\ [][\A paths \in PathOptions, url \in RequestUrls, accept \in AcceptValues :
            ExpressMiddlewareCall(paths, url, accept) =>
                /\ nextCalls = 0 /\ nextCalls' = 1
                /\ IF shouldLogPath(url, paths.includePaths, paths.ignorePaths)
                   THEN pc' = "running" /\ logMetadata' = EmptyMap /\ ~logged'
                   ELSE /\ pc' = "skipped"
                        /\ Cur' = [Cur EXCEPT !.requestPath = url]]_vars
    /\ [][(surface = "http" /\ pc = "running" /\ nCalls' = nCalls + 1)
            => /\ nextCalls' = 1
               /\ completions' > completions => (logged' /\ Len(written') = 1)
               /\ faithful']_vars

\* an accepted exchange whose handler, run by the one call of next, set a
\* header, wrote and ended
C40_Witness ==
    /\ surface = "http" /\ pc = "running" /\ nextCalls = 1
    /\ nCalls = 3 /\ completions = 1 /\ nLines >= 1
    /\ logged /\ faithful /\ Len(written) = 1


====
